---------------------------- MODULE Spec2Model ----------------------------
(***************************************************************************)
(* Verification model of the Singapore property agent: the adaptive batch  *)
(* router and the route client (OneMapClient, AuthManager), the radius     *)
(* search, the multi-center search and the enrichment of a property        *)
(* (DatabaseManager), the station finder and its deduplicator, the         *)
(* planning-zone client, the school client and the ad-hoc query tool.      *)
(*                                                                         *)
(* Each component has its own specification (SpecRouter, SpecSearch,       *)
(* SpecMulti, SpecDedup, ...); the variables of the other components stay  *)
(* at their idle values.                                                   *)
(***************************************************************************)
EXTENDS Integers, Sequences, FiniteSets, TLC

VARIABLES
    component,          \* which component this behaviour exercises
    \* ---- adaptive batch router (OneMapClient.batchCalculateRoutes) ----
    rpc,                \* position of batchCalculateRoutes
    destinations,       \* the destination list (names 1..n)
    i,                  \* loop variable of the batch loop (0-based offset)
    calls,              \* per destination: the state of its async callback
    results,            \* the results array
    consecutiveErrors,  \* the consecutive-error counter
    delays,             \* inter-batch sleeps so far, in thirds of a ms
    \* ---- radius search / multi-center search (DatabaseManager) ----
    db,                 \* the properties table
    request,            \* the arguments of the last search
    response,           \* the value the last search returned
    \* ---- station deduplication ----
    stations,           \* the input array
    deduped,            \* the returned array
    dedupDone,          \* whether deduplicateStations has returned
    \* ---- quarter decoding (DatabaseManager.parseToQuarter) ----
    mmyyDate,           \* the argument: a string of four digits
    parsed,             \* the locals and the return value of the call
    \* ---- enrichment (DatabaseManager.enrichPropertyData) ----
    history,            \* the rows of transactions of the property, as inserted
    rentals,            \* the rows of rentals of the property, as inserted
    sqliteSequence,     \* the greatest id the tables transactions and rentals ever held
    initCalls,          \* per call of init_property_database: its position
    enriched,           \* the value enrichPropertyData returned
    \* ---- planning zones (PlanningZoneClient and the two tool handlers) ----
    dataFile,           \* the GeoJSON file on disk: absent, valid or broken
    fileReads,          \* how often the process has read and parsed the file
    zoneHandler,        \* per tool call taken so far: the tool and the handler's position
    zoneClient,         \* per tool call taken so far: the PlanningZoneClient it constructed
    \* ---- station finder (MRTFinder.findStationsWithinTime) ----
    finderCall,         \* maxTimeMinutes, transportMode and the routeResults
    finderResult,       \* the value findStationsWithinTime returned
    \* ---- concurrent callers of one PlanningZoneClient (loadData) ----
    loaderClient,       \* the PlanningZoneClient the callers share
    loaderFile,         \* the GeoJSON file on disk: absent, valid or broken
    callers,            \* per caller: the method, its position and what loadData gave it
    loadRuns,           \* how often _loadDataInternal has run on the client
    \* ---- route client (OneMapClient.calculateRoute, AuthManager.getToken) ----
    tokenCache,         \* the entry token of the AuthManager cache
    routeCache,         \* whether the client's cache holds the route of the signature
    convertCache,       \* whether the client's cache holds the conversion of the point
    routeCalls,         \* per caller of the client: method, position and requests made
    \* ---- ad-hoc query tool (handleQueryPropertyData, SQLExecutor) ----
    sqlQuery,           \* the argument sql_query, as a sequence of pieces of text
    dbCalls,            \* the calls made on the database during the request, in order
    queryResult,        \* what the handler returned
    \* ---- school client (OneMapSchoolClient.getNearbyPrimarySchools) ----
    schoolCookies,      \* the cookies the client holds: none, valid, or expiring
    schoolCache,        \* whether the cache of the client holds the schools
    isAuthenticating,   \* the flag of the client
    authCallers         \* per caller of getNearbyPrimarySchools: its position

routerVars == <<rpc, destinations, i, calls, results, consecutiveErrors, delays>>
searchVars == <<db, request, response>>
dedupVars  == <<stations, deduped, dedupDone>>
quarterVars == <<mmyyDate, parsed>>
trendVars == <<history, rentals, sqliteSequence, initCalls, enriched>>
zoneVars == <<dataFile, fileReads, zoneHandler, zoneClient>>
finderVars == <<finderCall, finderResult>>
loaderVars == <<loaderClient, loaderFile, callers, loadRuns>>
clientVars == <<tokenCache, routeCache, convertCache, routeCalls>>
queryVars == <<sqlQuery, dbCalls, queryResult>>
schoolVars == <<schoolCookies, schoolCache, isAuthenticating, authCallers>>
vars ==
    <<component, routerVars, searchVars, dedupVars, quarterVars,
      trendVars, zoneVars, finderVars, loaderVars, clientVars,
      queryVars, schoolVars>>

\* A step of one component leaves the other components as they are
RouterStep ==
    /\ component = "router"
    /\ UNCHANGED <<component, searchVars, dedupVars, quarterVars,
                   trendVars, zoneVars, finderVars, loaderVars,
                   clientVars, queryVars, schoolVars>>
SearchStep ==
    /\ component = "search"
    /\ UNCHANGED <<component, routerVars, dedupVars, quarterVars,
                   trendVars, zoneVars, finderVars, loaderVars,
                   clientVars, queryVars, schoolVars>>
MultiStep ==
    /\ component = "multi"
    /\ UNCHANGED <<component, routerVars, dedupVars, quarterVars,
                   trendVars, zoneVars, finderVars, loaderVars,
                   clientVars, queryVars, schoolVars>>
DedupStep ==
    /\ component = "dedup"
    /\ UNCHANGED <<component, routerVars, searchVars, quarterVars,
                   trendVars, zoneVars, finderVars, loaderVars,
                   clientVars, queryVars, schoolVars>>
QuarterStep ==
    /\ component = "quarter"
    /\ UNCHANGED <<component, routerVars, searchVars, dedupVars,
                   trendVars, zoneVars, finderVars, loaderVars,
                   clientVars, queryVars, schoolVars>>
TrendStep ==
    /\ component = "trend"
    /\ UNCHANGED <<component, routerVars, searchVars, dedupVars,
                   quarterVars, zoneVars, finderVars, loaderVars,
                   clientVars, queryVars, schoolVars>>
ZoneStep ==
    /\ component = "zones"
    /\ UNCHANGED <<component, routerVars, searchVars, dedupVars,
                   quarterVars, trendVars, finderVars, loaderVars,
                   clientVars, queryVars, schoolVars>>
FinderStep ==
    /\ component = "finder"
    /\ UNCHANGED <<component, routerVars, searchVars, dedupVars,
                   quarterVars, trendVars, zoneVars, loaderVars,
                   clientVars, queryVars, schoolVars>>
LoaderStep ==
    /\ component = "loader"
    /\ UNCHANGED <<component, routerVars, searchVars, dedupVars,
                   quarterVars, trendVars, zoneVars, finderVars,
                   clientVars, queryVars, schoolVars>>
ClientStep ==
    /\ component = "client"
    /\ UNCHANGED <<component, routerVars, searchVars, dedupVars,
                   quarterVars, trendVars, zoneVars, finderVars,
                   loaderVars, queryVars, schoolVars>>
QueryStep ==
    /\ component = "query"
    /\ UNCHANGED <<component, routerVars, searchVars, dedupVars,
                   quarterVars, trendVars, zoneVars, finderVars,
                   loaderVars, clientVars, schoolVars>>
SchoolStep ==
    /\ component = "school"
    /\ UNCHANGED <<component, routerVars, searchVars, dedupVars,
                   quarterVars, trendVars, zoneVars, finderVars,
                   loaderVars, clientVars, queryVars>>

(***************************************************************************)
(* Generic helpers                                                         *)
(***************************************************************************)
Min(a, b) == IF a <= b THEN a ELSE b
Max(a, b) == IF a >= b THEN a ELSE b
Range(s) == {s[k] : k \in DOMAIN s}

RECURSIVE Pow2(_)
Pow2(n) == IF n <= 0 THEN 1 ELSE 2 * Pow2(n - 1)

\* All sequences over S of length 0..n
SeqsUpTo(S, n) == UNION {[1..m -> S] : m \in 0..n}

(***************************************************************************)
(* ADAPTIVE BATCH ROUTER                                                   *)
(***************************************************************************)
MaxDest == 4

BATCH_SIZE == 3
BASE_DELAY == 2000
DELAY_CAP == 10000
BatchMaxRetries == 2

\* What one HTTP routing request can end in: a route, or an HTTP status
\* with the message of the response.  429 is a status the code retries,
\* 504 is a 5xx the code does not list, 401 is the credential-expired
\* response; s504busy is a 504 whose body message reads "Too Many
\* Requests", s400quoted a 400 whose body message quotes "(503)".
Outcomes == {"ok", "s429", "s504", "s401", "s504busy", "s400quoted"}

StatusOf(o) ==
    CASE o = "s429" -> 429
      [] o \in {"s504", "s504busy"} -> 504
      [] o = "s401" -> 401
      [] o = "s400quoted" -> 400
      [] OTHER -> 200

\* error.response?.data?.message || error.message
BodyOf(o) ==
    CASE o = "s504busy" -> "Too Many Requests"
      [] o = "s400quoted" -> "upstream said (503)"
      [] OTHER -> "Request failed"

\* The value of a property that was never set (error: undefined).
Undefined ==
    [defined |-> FALSE, text |-> "", body |-> "", status |-> 0, tagged |-> FALSE]

\* calculateRoute's catch block: the Error it throws for a failed request,
\* `Failed to calculate route: ${message} (${status})` (tagged), or the
\* fixed message of a 401.
RouteError(o) ==
    IF StatusOf(o) = 401
    THEN [defined |-> TRUE, text |-> "Authentication failed", body |-> "",
          status |-> 0, tagged |-> FALSE]
    ELSE [defined |-> TRUE, text |-> "Failed to calculate route",
          body |-> BodyOf(o), status |-> StatusOf(o), tagged |-> TRUE]

\* The texts calculateRouteWithRetry looks for in the message
RetryTexts == {"(429)", "(500)", "(502)", "(503)", "Too Many Requests"}

\* The texts of RetryTexts that a message body holds
TextsIn(body) ==
    CASE body = "Too Many Requests" -> {"Too Many Requests"}
      [] body = "upstream said (503)" -> {"(503)"}
      [] OTHER -> {}

\* `(${status})` at the end of the message
StatusTag(status) ==
    CASE status = 429 -> "(429)"
      [] status = 500 -> "(500)"
      [] status = 502 -> "(502)"
      [] status = 503 -> "(503)"
      [] OTHER -> "(other)"

\* errorMessage.includes(text)
messageIncludes(msg, text) ==
    msg.tagged /\ (text = StatusTag(msg.status) \/ text \in TextsIn(msg.body))

\* errorMessage.includes('(429)') || '(500)' || '(502)' || '(503)' ||
\* 'Too Many Requests'
isRetryable(msg) == \E text \in RetryTexts : messageIncludes(msg, text)

\* if (!isRetryable || attempt === maxRetries) throw lastError
ThrowsNow(msg, attempt, maxRetries) == ~isRetryable(msg) \/ attempt = maxRetries

\* Math.pow(2, attempt - 1) * 1000
BackoffDelay(attempt) == Pow2(attempt - 1) * 1000

\* The entries the async callback of batch.map returns.
SuccessEntry(dest) == [destination |-> dest, result |-> "route", error |-> Undefined]
FailureEntryNoCause(dest, msg) == [destination |-> dest, result |-> "null", error |-> Undefined]
FailureEntry(dest, msg) == [destination |-> dest, result |-> "null", error |-> msg]

\* destinations.slice(i, i + BATCH_SIZE), as 1-based positions
BatchWide(n, at) == (at + 1)..Min(at + BATCH_SIZE + 1, n)
Batch(n, at) == (at + 1)..Min(at + BATCH_SIZE, n)

NoEntry == [destination |-> 0, result |-> "null", error |-> Undefined]
IdleCall == [pc |-> "idle", attempt |-> 0, waits |-> <<>>, outcomes |-> <<>>,
             entry |-> NoEntry]

\* batch.map(async dest => ...): every callback of the batch runs up to its
\* first request.
StartBatch(cs, n, at) ==
    [d \in 1..n |-> IF d \in Batch(n, at)
                    THEN [cs[d] EXCEPT !.pc = "inflight", !.attempt = 1]
                    ELSE cs[d]]

\* errors / batch.length > 0.5, in integers
ErrorRateHigh(errors, len) == 2 * errors > len

\* BASE_DELAY * (1 + errorRate * 2) * (1 + consecutiveErrors * 0.5), capped,
\* in thirds of a millisecond (exact for a full batch of 3).
AdaptiveDelayUncappedX3(errors, len, counter) ==
    (BASE_DELAY * (len + 2 * errors) * (2 + counter) * 3) \div (2 * len)
AdaptiveDelayX3(errors, len, counter) ==
    Min((BASE_DELAY * (len + 2 * errors) * (2 + counter) * 3) \div (2 * len),
        DELAY_CAP * 3)

RouterIdle ==
    /\ rpc = "off"
    /\ destinations = 0
    /\ i = 0
    /\ calls = <<>>
    /\ results = <<>>
    /\ consecutiveErrors = 0
    /\ delays = <<>>

InitRouter ==
    /\ rpc = "idle"
    /\ destinations \in 0..MaxDest
    /\ i = 0
    /\ calls = [d \in 1..destinations |-> IdleCall]
    /\ results = <<>>
    /\ consecutiveErrors = 0
    /\ delays = <<>>

\* Longer lists of destinations, for requests that are not retried
MaxPaced == 7
PlainOutcomes == {"ok", "s504"}

InitPacing ==
    /\ rpc = "idle"
    /\ destinations \in 0..MaxPaced
    /\ i = 0
    /\ calls = [d \in 1..destinations |-> IdleCall]
    /\ results = <<>>
    /\ consecutiveErrors = 0
    /\ delays = <<>>

\* batchCalculateRoutes is called: with no destination the loop body never
\* runs and the empty list is returned; otherwise the first batch starts.
BatchInvoke ==
    /\ RouterStep
    /\ rpc = "idle"
    /\ IF destinations = 0
       THEN /\ rpc' = "done"
            /\ UNCHANGED calls
       ELSE /\ rpc' = "running"
            /\ calls' = StartBatch(calls, destinations, 0)
    /\ UNCHANGED <<destinations, i, results, consecutiveErrors, delays>>

\* One request of destination d settles with outcome o: calculateRoute
\* returns or throws, and calculateRouteWithRetry / the callback react.
RouteReturns(d, o) ==
    /\ RouterStep
    /\ rpc = "running"
    /\ d \in DOMAIN calls
    /\ calls[d].pc = "inflight"
    /\ LET c == calls[d]
           seen == Append(c.outcomes, o)
           msg == RouteError(o)
       IN calls' = [calls EXCEPT ![d] =
            IF o = "ok"
            THEN [c EXCEPT !.pc = "resolved", !.outcomes = seen,
                           !.entry = SuccessEntry(d)]
            ELSE IF ThrowsNow(msg, c.attempt, BatchMaxRetries)
            THEN [c EXCEPT !.pc = "resolved", !.outcomes = seen,
                           !.entry = FailureEntry(d, msg)]
            ELSE [c EXCEPT !.pc = "backoff", !.outcomes = seen,
                           !.waits = Append(c.waits, BackoffDelay(c.attempt))]]
    /\ UNCHANGED <<rpc, destinations, i, results, consecutiveErrors, delays>>

\* The backoff timer of destination d fires: the loop makes the next attempt.
BackoffElapsed(d) ==
    /\ RouterStep
    /\ rpc = "running"
    /\ d \in DOMAIN calls
    /\ calls[d].pc = "backoff"
    /\ calls' = [calls EXCEPT ![d].pc = "inflight", ![d].attempt = @ + 1]
    /\ UNCHANGED <<rpc, destinations, i, results, consecutiveErrors, delays>>

\* Promise.all(batchPromises) resolves: results are pushed in batch order,
\* the counter is adjusted and the inter-batch sleep starts (or the list is
\* returned after the last batch).  The callbacks of the batch are finished:
\* only the entries they returned are kept.
BatchSettled ==
    /\ RouterStep
    /\ rpc = "running"
    /\ \A d \in Batch(destinations, i) : calls[d].pc = "resolved"
    /\ LET b == Batch(destinations, i)
           len == Cardinality(b)
           batchResults == [k \in 1..len |-> calls[i + k].entry]
           errors == Cardinality({k \in 1..len : batchResults[k].error.defined})
           counter == IF ErrorRateHigh(errors, len)
                      THEN consecutiveErrors + 1
                      ELSE Max(0, consecutiveErrors - 1)
       IN /\ results' = results \o batchResults
          /\ calls' = [d \in DOMAIN calls |->
                         IF d \in b
                         THEN [IdleCall EXCEPT !.pc = "settled",
                                               !.entry = calls[d].entry]
                         ELSE calls[d]]
          /\ consecutiveErrors' = counter
          /\ IF i + BATCH_SIZE < destinations
             THEN /\ rpc' = "sleeping"
                  /\ delays' = Append(delays, AdaptiveDelayX3(errors, len, counter))
             ELSE /\ rpc' = "done"
                  /\ UNCHANGED delays
    /\ UNCHANGED <<destinations, i>>

\* The inter-batch timer fires: i += BATCH_SIZE and the next batch starts.
DelayElapsed ==
    /\ RouterStep
    /\ rpc = "sleeping"
    /\ i' = i + BATCH_SIZE
    /\ calls' = StartBatch(calls, destinations, i + BATCH_SIZE)
    /\ rpc' = "running"
    /\ UNCHANGED <<destinations, results, consecutiveErrors, delays>>

(***************************************************************************)
(* RADIUS SEARCH (DatabaseManager.searchPropertiesNear)                    *)
(*                                                                         *)
(* Coordinates are integers (meters).  The SQL distance                    *)
(* SQRT(POWER(dx,2)+POWER(dy,2)) is carried as its square: SQRT is         *)
(* monotone, so every comparison of distances agrees with the comparison   *)
(* of their squares.  A number option that is absent is 0 (the code tests  *)
(* "if (minPrice)"); an array option is [given, vals]; a date is [mm, yy]  *)
(* and compares as the 4-character string MMYY does.                       *)
(***************************************************************************)
MaxProps == 2
MaxLimit == 3
DEFAULT_MULTI_RADIUS == 1200
AGE_BASE_YEAR == 2025

Absent == [given |-> FALSE, vals |-> {}]
Given(S) == [given |-> TRUE, vals |-> S]
NoDate == [given |-> FALSE, mm |-> 0, yy |-> 0]

\* createSearchBounds(center, radiusMeters)
createSearchBoundsOneSided(center, radiusMeters) ==
    [minX |-> center.x, maxX |-> center.x + radiusMeters,
     minY |-> center.y, maxY |-> center.y + radiusMeters]
createSearchBounds(center, radiusMeters) ==
    [minX |-> center.x - radiusMeters, maxX |-> center.x + radiusMeters,
     minY |-> center.y - radiusMeters, maxY |-> center.y + radiusMeters]

\* p.x BETWEEN ? AND ? AND p.y BETWEEN ? AND ?
InBounds(p, bounds) ==
    /\ bounds.minX <= p.x /\ p.x <= bounds.maxX
    /\ bounds.minY <= p.y /\ p.y <= bounds.maxY

\* POWER(p.x - cx, 2) + POWER(p.y - cy, 2): the squared distance
Dist2(p, center) ==
    (p.x - center.x) * (p.x - center.x) + (p.y - center.y) * (p.y - center.y)

\* SQRT(...) <= radius
WithinRadiusAlways(p, center, radius) == TRUE
WithinRadius(p, center, radius) ==
    radius >= 0 /\ Dist2(p, center) <= radius * radius

\* t.contract_date >= ? / <= ? on MMYY strings: the month characters decide
\* first, then the year characters.
DateLeq(a, b) == a.mm < b.mm \/ (a.mm = b.mm /\ a.yy <= b.yy)

\* if (minPrice || maxPrice || propertyTypes || fromDate || toDate ||
\*     minCompletionYear || maxPropertyAge || saleTypes)
TxFilterOn(o) ==
    \/ o.minPrice # 0 \/ o.maxPrice # 0 \/ o.propertyTypes.given
    \/ o.fromDate.given \/ o.toDate.given
    \/ o.minCompletionYear # 0 \/ o.maxPropertyAge # 0 \/ o.saleTypes.given

\* The conjuncts appended inside EXISTS (SELECT 1 FROM transactions t ...)
TxMatches(t, o) ==
    /\ o.minPrice # 0 => t.price >= o.minPrice
    /\ o.maxPrice # 0 => t.price <= o.maxPrice
    /\ (o.propertyTypes.given /\ o.propertyTypes.vals # {})
          => t.property_type \in o.propertyTypes.vals
    /\ o.fromDate.given => DateLeq(o.fromDate, t.contract_date)
    /\ o.toDate.given => DateLeq(t.contract_date, o.toDate)
    /\ o.minCompletionYear # 0 => t.tenureYear >= o.minCompletionYear
    /\ o.maxPropertyAge # 0 => t.tenureYear >= AGE_BASE_YEAR - o.maxPropertyAge
    /\ (o.saleTypes.given /\ o.saleTypes.vals # {})
          => t.type_of_sale \in o.saleTypes.vals

\* The property-level conjuncts (market_segment IN, district IN)
PropertyFilters(p, o) ==
    /\ (o.marketSegments.given /\ o.marketSegments.vals # {})
          => p.market_segment \in o.marketSegments.vals
    /\ (o.districts.given /\ o.districts.vals # {})
          => p.district \in o.districts.vals

\* The WHERE clause of the query for one row of properties
RowMatchesSeparately(p, center, o) ==
    LET blank == [o EXCEPT !.minPrice = 0, !.maxPrice = 0,
                      !.propertyTypes = Absent, !.fromDate = NoDate,
                      !.toDate = NoDate, !.minCompletionYear = 0,
                      !.maxPropertyAge = 0, !.saleTypes = Absent]
        singles == {[blank EXCEPT !.minPrice = o.minPrice],
                    [blank EXCEPT !.maxPrice = o.maxPrice],
                    [blank EXCEPT !.propertyTypes = o.propertyTypes],
                    [blank EXCEPT !.fromDate = o.fromDate],
                    [blank EXCEPT !.toDate = o.toDate],
                    [blank EXCEPT !.minCompletionYear = o.minCompletionYear],
                    [blank EXCEPT !.maxPropertyAge = o.maxPropertyAge],
                    [blank EXCEPT !.saleTypes = o.saleTypes]}
    IN /\ InBounds(p, createSearchBounds(center, o.maxDistanceMeters))
       /\ WithinRadius(p, center, o.maxDistanceMeters)
       /\ PropertyFilters(p, o)
       /\ TxFilterOn(o) =>
             \A single \in singles :
                 \E k \in DOMAIN p.txs : TxMatches(p.txs[k], single)
RowMatches(p, center, o) ==
    /\ InBounds(p, createSearchBounds(center, o.maxDistanceMeters))
    /\ WithinRadius(p, center, o.maxDistanceMeters)
    /\ PropertyFilters(p, o)
    /\ TxFilterOn(o) => \E k \in DOMAIN p.txs : TxMatches(p.txs[k], o)

\* All orders of the set S
Perms(S) ==
    {f \in [1..Cardinality(S) -> S] : \A a, b \in 1..Cardinality(S) : a # b => f[a] # f[b]}

\* ORDER BY distance ASC: the rows in an order of ascending distance; rows
\* at the same distance come in whatever order the database yields.  Each
\* next row is one that no remaining row is closer than.
AnyOrder(rows) == Perms(rows)
CloserThan(q, r) == q.distance2 < r.distance2
RECURSIVE OrderByDistance(_)
OrderByDistance(rows) ==
    IF rows = {} THEN {<<>>}
    ELSE UNION {{<<m>> \o rest : rest \in OrderByDistance(rows \ {m})} :
                   m \in {r \in rows : \A q \in rows : ~CloserThan(q, r)}}

\* (no LIMIT)
LimitNone(rows, limit) == rows
\* LIMIT ?
Limit(rows, limit) == SubSeq(rows, 1, Min(limit, Len(rows)))

\* The rows the query selects: the property's columns and its distance
SelectRows(table, center, o) ==
    {[id |-> id, distance2 |-> Dist2(table[id], center)] :
        id \in {k \in DOMAIN table : RowMatches(table[k], center, o)}}

\* searchPropertiesNear: the query with LIMIT limit, the same query with
\* LIMIT limit + 1 for the truncation flag, and the response.
searchPropertiesNear(table, center, o) ==
    {[results |-> Limit(ordered, o.limit),
      truncated |-> Len(Limit(check, o.limit + 1)) > o.limit,
      totalAvailable |-> IF Len(Limit(check, o.limit + 1)) > o.limit
                         THEN -1
                         ELSE Len(Limit(ordered, o.limit))] :
        ordered \in OrderByDistance(SelectRows(table, center, o)),
        check \in OrderByDistance(SelectRows(table, center, o))}

\* ---- the inputs of the search specification ----
Points == {<<1, 1>>, <<1, 0>>, <<0, 1>>, <<0, 0>>, <<3, 1>>}
CenterPoints == {<<1, 1>>, <<0, 0>>}
Radii == {0, 1, 2}

Tx(price, ptype, mm, yy, tenureYear, sale) ==
    [price |-> price, property_type |-> ptype,
     contract_date |-> [given |-> TRUE, mm |-> mm, yy |-> yy],
     tenureYear |-> tenureYear, type_of_sale |-> sale]

\* The attribute profiles a property row is drawn from: a core-region condo
\* with one dear sale, a suburban development with a dear apartment sale
\* and a cheap condominium sale, and a property known from rentals only (no
\* transaction).
Profiles ==
    {[market_segment |-> "CCR", district |-> "09",
      txs |-> <<Tx(3, "Condominium", 1, 24, 2010, "3")>>],
     [market_segment |-> "OCR", district |-> "19",
      txs |-> <<Tx(3, "Apartment", 12, 23, 0, "1"),
                Tx(1, "Condominium", 12, 23, 0, "3")>>],
     [market_segment |-> "CCR", district |-> "09", txs |-> <<>>]}

Property(pt, prof) ==
    [x |-> pt[1], y |-> pt[2], market_segment |-> prof.market_segment,
     district |-> prof.district, txs |-> prof.txs]

Tables(points, profiles) ==
    UNION {[1..n -> {Property(pt, prof) : pt \in points, prof \in profiles}] :
              n \in 0..MaxProps}

Options(radius, segs, minPrice, ptypes, limit) ==
    [maxDistanceMeters |-> radius, minPrice |-> minPrice, maxPrice |-> 0,
     propertyTypes |-> ptypes, marketSegments |-> segs, districts |-> Absent,
     fromDate |-> NoDate, toDate |-> NoDate, minCompletionYear |-> 0,
     maxPropertyAge |-> 0, saleTypes |-> Absent, limit |-> limit]

\* fromDate / toDate: the string MMYY
DateOf(mm, yy) == [given |-> TRUE, mm |-> mm, yy |-> yy]

\* The transaction filters a search is drawn with: none, a minimum price,
\* an empty list of property types, the date range "0124" to "1224", the
\* start date "0624" alone, a minimum price with a property type.
TxPresets ==
    {<<0, Absent, NoDate, NoDate>>, <<2, Absent, NoDate, NoDate>>,
     <<2, Given({"Condominium"}), NoDate, NoDate>>,
     <<0, Given({}), NoDate, NoDate>>,
     <<0, Absent, DateOf(1, 24), DateOf(12, 24)>>,
     <<0, Absent, DateOf(6, 24), NoDate>>}

SearchOptions ==
    {[Options(r, segs, txf[1], txf[2], limit)
         EXCEPT !.fromDate = txf[3], !.toDate = txf[4]] :
        r \in Radii, segs \in {Absent, Given({"CCR"})},
        txf \in TxPresets, limit \in {1, MaxLimit}}

NoRequest == [op |-> "none"]
NoResponse == [results |-> <<>>, truncated |-> FALSE, totalAvailable |-> -1]

SearchIdle ==
    /\ db = <<>>
    /\ request = NoRequest
    /\ response = NoResponse

InitSearch ==
    /\ db \in Tables(Points, Profiles)
    /\ request = NoRequest
    /\ response = NoResponse

\* One call of searchPropertiesNear(center, options).  The search only reads
\* the table, so a behaviour makes one call: every call is the first call of
\* some behaviour.
SearchNear ==
    /\ SearchStep
    /\ request = NoRequest
    /\ \E c \in CenterPoints, o \in SearchOptions :
         LET center == [x |-> c[1], y |-> c[2]]
         IN /\ request' = [op |-> "near", center |-> center, options |-> o]
            /\ response' \in searchPropertiesNear(db, center, o)
    /\ UNCHANGED db

(***************************************************************************)
(* MULTI-CENTER SEARCH (DatabaseManager.searchPropertiesNearMultiple)      *)
(*                                                                         *)
(* A center is [x, y, name, radius]; radius 0 stands for a radius that is  *)
(* absent or 0 (the code reads "center.radius || 1200").  Center names are *)
(* numbers that stand for strings in their collation order.                *)
(***************************************************************************)
MaxCenters == 2

\* center.radius || 1200
EffectiveRadius(center) ==
    IF center.radius = 0 THEN DEFAULT_MULTI_RADIUS ELSE center.radius

\* multi_center_results: the UNION ALL of one SELECT per center; k is the
\* position of the SELECT the row comes from.
MultiCenterRows(table, centers) ==
    {r \in {[id |-> id, k |-> k, search_center |-> centers[k].name,
             distance2 |-> Dist2(table[id], centers[k])] :
                id \in DOMAIN table, k \in DOMAIN centers} :
        /\ InBounds(table[r.id],
                    createSearchBounds(centers[r.k], EffectiveRadius(centers[r.k])))
        /\ WithinRadius(table[r.id], centers[r.k], EffectiveRadius(centers[r.k]))}

\* ROW_NUMBER() OVER (PARTITION BY id ORDER BY distance_to_center ASC) = 1:
\* the rows of one id that can get rank 1.  The window is ordered by the
\* distance alone, so among the rows of one id at the least distance the
\* query leaves open which one is numbered 1.
AnyRowOf(rows, id) == {r \in rows : r.id = id}
ClosestRowsOf(rows, id) ==
    LET ofId == {r \in rows : r.id = id}
    IN {r \in ofId : \A q \in ofId : r.distance2 <= q.distance2}

\* if (minPrice || maxPrice || propertyTypes || fromDate || toDate)
MultiTxFilterOn(o) ==
    \/ o.minPrice # 0 \/ o.maxPrice # 0 \/ o.propertyTypes.given
    \/ o.fromDate.given \/ o.toDate.given

\* The conjuncts appended inside the multi-center EXISTS
MultiTxMatches(t, o) ==
    /\ o.minPrice # 0 => t.price >= o.minPrice
    /\ o.maxPrice # 0 => t.price <= o.maxPrice
    /\ (o.propertyTypes.given /\ o.propertyTypes.vals # {})
          => t.property_type \in o.propertyTypes.vals
    /\ o.fromDate.given => DateLeq(o.fromDate, t.contract_date)
    /\ o.toDate.given => DateLeq(t.contract_date, o.toDate)

\* The rows of transactions that pass "t.property_id = id": inside the
\* subquery the bare id is the id of the transaction itself (the innermost
\* table with a column of that name), not the id of the property row.
OwnIdTransactions(table) ==
    UNION {{table[id].txs[k] :
               k \in {j \in DOMAIN table[id].txs : table[id].txs[j].id = id}} :
           id \in DOMAIN table}

\* WHERE closest_rank = 1 AND <filters>: the EXISTS does not depend on the
\* row, it holds when some transaction whose id is its property_id passes
\* the transaction filters
MultiRowMatches(table, p, o) ==
    /\ PropertyFilters(p, o)
    /\ MultiTxFilterOn(o) =>
          \E t \in OwnIdTransactions(table) : MultiTxMatches(t, o)

\* ORDER BY search_center, distance_to_center ASC
CenterThenCloser(q, r) ==
    \/ q.search_center < r.search_center
    \/ q.search_center = r.search_center /\ q.distance2 < r.distance2
OrderByDistanceOnly(rows) == OrderByDistance(rows)
RECURSIVE OrderByCenterThenDistance(_)
OrderByCenterThenDistance(rows) ==
    IF rows = {} THEN {<<>>}
    ELSE UNION {{<<m>> \o rest : rest \in OrderByCenterThenDistance(rows \ {m})} :
                   m \in {r \in rows : \A q \in rows : ~CenterThenCloser(q, r)}}

\* The rank-1 choices the database can make, one row per id
ClosestOverKeepingTies(rows, ids) == {UNION {ClosestRowsOf(rows, id) : id \in ids}}
RECURSIVE ClosestOver(_, _)
ClosestOver(rows, ids) ==
    IF ids = {} THEN {{}}
    ELSE LET id == CHOOSE x \in ids : TRUE
         IN {rest \cup {r} :
                rest \in ClosestOver(rows, ids \ {id}),
                r \in ClosestRowsOf(rows, id)}

ClosestAssignments(rows) == ClosestOver(rows, {r.id : r \in rows})

\* The rows the final SELECT yields for one rank-1 choice
MultiSelectRows(table, chosen, o) ==
    {[id |-> r.id, search_center |-> r.search_center, distance2 |-> r.distance2] :
        r \in {q \in chosen : MultiRowMatches(table, table[q.id], o)}}

\* searchPropertiesNearMultiple: the query with LIMIT limit, the query again
\* with LIMIT limit + 1, and the response (searchCenter, distanceToCenter).
searchPropertiesNearMultiple(table, centers, o) ==
    LET rows == MultiCenterRows(table, centers)
    IN UNION {
         {[results |-> Limit(ordered, o.limit),
           truncated |-> Len(Limit(ordered, o.limit + 1)) > o.limit,
           totalAvailable |-> IF Len(Limit(ordered, o.limit + 1)) > o.limit
                              THEN -1
                              ELSE Len(Limit(ordered, o.limit))] :
             ordered \in OrderByCenterThenDistance(MultiSelectRows(table, chosen, o))} :
         chosen \in ClosestAssignments(rows)}

\* ---- the inputs of the multi-center specification ----
\* The profile of the property at a point: at <<1, 1>> a core-region condo
\* with a dear sale and then a cheap one, at <<0, 1>> a core-region project
\* listed with no transaction, elsewhere a suburban apartment with one cheap
\* sale.  The district is the one of the first transaction.
ProfileAt(pt) ==
    CASE pt = <<1, 1>> ->
           [market_segment |-> "CCR", district |-> "09",
            txs |-> <<Tx(3, "Condominium", 1, 24, 2010, "3"),
                      Tx(1, "Condominium", 2, 24, 2010, "3")>>]
      [] pt = <<0, 1>> ->
           [market_segment |-> "CCR", district |-> "09", txs |-> <<>>]
      [] OTHER ->
           [market_segment |-> "OCR", district |-> "19",
            txs |-> <<Tx(1, "Apartment", 12, 23, 0, "1")>>]

\* What the feed of transactions holds: up to MaxProps projects
PropertyFeeds ==
    UNION {[1..n -> {Property(pt, ProfileAt(pt)) : pt \in Points}] : n \in 0..MaxProps}

\* sqlite_sequence when the ingestion starts, i.e. the greatest id each
\* table has ever held: nothing (the first ingestion), or the rows of an
\* earlier ingestion that the DELETE statements have removed (one project
\* with two transactions).
SequencesBefore ==
    {[properties |-> 0, transactions |-> 0],
     [properties |-> 1, transactions |-> 2]}

\* transactions.id of the k-th transaction of the n-th project of the feed:
\* AUTOINCREMENT numbers the rows as they are inserted, project after
\* project, from the greatest id ever held on
RECURSIVE TxIdOf(_, _, _, _)
TxIdOf(seq, feed, n, k) ==
    IF n = 1 THEN seq.transactions + k
    ELSE Len(feed[n - 1].txs) + TxIdOf(seq, feed, n - 1, k)

\* ingestTransactionData on tables without rentals: both tables are
\* emptied, then each project of the feed is inserted with the next id of
\* properties (its district NULL when it has no transaction) and its
\* transactions with the next ids of transactions.  The table is given as
\* the function from properties.id to the row, with the transactions of the
\* property.
ingestTransactionData(seq, feed) ==
    [id \in {seq.properties + n : n \in DOMAIN feed} |->
        LET n == id - seq.properties
        IN [feed[n] EXCEPT
               !.district = IF feed[n].txs = <<>> THEN "NULL" ELSE @,
               !.txs = [k \in DOMAIN feed[n].txs |->
                           [id |-> TxIdOf(seq, feed, n, k)] @@ feed[n].txs[k]]]]

MultiTables ==
    {ingestTransactionData(seq, feed) :
        seq \in SequencesBefore, feed \in PropertyFeeds}

\* The center at <<1, 1>> is named 2 and the center at <<0, 0>> is named 1,
\* so that a list can be in another order than its names are.
NameAt(pt) == IF pt = <<1, 1>> THEN 2 ELSE 1

\* Radius 0 (none given: 1200 m, the whole grid) and radius 1
CenterRadii == {0, 1}

CenterChoices ==
    {[x |-> pt[1], y |-> pt[2], name |-> NameAt(pt), radius |-> r] :
        pt \in CenterPoints, r \in CenterRadii}

CenterLists == UNION {[1..n -> CenterChoices] : n \in 1..MaxCenters}

\* The options of a multi-center search: a market segment or none, a list of
\* sale types or none, a minimum price or none, a limit.
MultiOptions ==
    {[Options(0, segs, minPrice, Absent, limit) EXCEPT !.saleTypes = sales] :
        segs \in {Absent, Given({"CCR"})}, sales \in {Absent, Given({"1"})},
        minPrice \in {0, 2}, limit \in {1, MaxLimit}}

InitMulti ==
    /\ db \in MultiTables
    /\ request = NoRequest
    /\ response = NoResponse

\* One call of searchPropertiesNearMultiple(centers, options)
SearchNearMultiple ==
    /\ MultiStep
    /\ request = NoRequest
    /\ \E centers \in CenterLists, o \in MultiOptions :
         /\ request' = [op |-> "multi", centers |-> centers, options |-> o]
         /\ response' \in searchPropertiesNearMultiple(db, centers, o)
    /\ UNCHANGED db

(***************************************************************************)
(* STATION DEDUPLICATION (deduplicateStations)                             *)
(*                                                                         *)
(* A station name is the sequence of its words (the name split at its      *)
(* whitespace); the regular expressions of the code are applied to the     *)
(* words.  A distance is in hundredths of a kilometre.                     *)
(***************************************************************************)
MaxStations == 3

\* Words matching [A-Z-]+ , a single letter [A-Z], and \([A-Z]{2}\d+\)
LetterWords == {"KENT", "BUONA", "MRT", "STATION", "EXIT", "A", "B"}
SingleLetters == {"A", "B"}
LineCodes == {"(CC24)"}

\* The first position of " MRT STATION" (whitespace before MRT), or 0
MrtStationAt(name) ==
    LET hits == {k \in 2..Len(name) - 1 : name[k] = "MRT" /\ name[k + 1] = "STATION"}
    IN IF hits = {} THEN 0 ELSE CHOOSE k \in hits : \A j \in hits : k <= j

\* .replace(/\s+MRT\s+STATION.*$/i, '')
StripMrtStation(name) ==
    IF MrtStationAt(name) = 0 THEN name ELSE SubSeq(name, 1, MrtStationAt(name) - 1)

\* .replace(/\s+EXIT\s+[A-Z]$/i, '')
StripExit(name) ==
    IF Len(name) >= 3 /\ name[Len(name) - 1] = "EXIT" /\ name[Len(name)] \in SingleLetters
    THEN SubSeq(name, 1, Len(name) - 2)
    ELSE name

\* .replace(/\s+\([A-Z]{2}\d+\)$/i, '')
StripLineCode(name) ==
    IF Len(name) >= 2 /\ name[Len(name)] \in LineCodes
    THEN SubSeq(name, 1, Len(name) - 1)
    ELSE name

extractBaseName(stationName) == StripLineCode(StripExit(StripMrtStation(stationName)))

getStationPriority(stationName) ==
    LET n == Len(stationName) IN
    \* /^[A-Z\s-]+MRT\s+STATION$/
    IF /\ n >= 3 /\ stationName[n - 1] = "MRT" /\ stationName[n] = "STATION"
       /\ \A k \in 1..n : stationName[k] \in LetterWords
    THEN 1
    \* /\([A-Z]{2}\d+\)$/
    ELSE IF n >= 1 /\ stationName[n] \in LineCodes THEN 2
    \* /EXIT\s+A$/
    ELSE IF n >= 2 /\ stationName[n - 1] = "EXIT" /\ stationName[n] = "A" THEN 3
    \* /EXIT\s+[B-Z]$/
    ELSE IF n >= 2 /\ stationName[n - 1] = "EXIT"
            /\ stationName[n] \in SingleLetters \ {"A"} THEN 4
    ELSE 5

\* Whether the loop replaces the group's bestRepresentative by station
ReplacesBestByPriorityOnly(station, best) ==
    getStationPriority(station.name) < getStationPriority(best.name)
ReplacesBest(station, best) ==
    \/ getStationPriority(station.name) < getStationPriority(best.name)
    \/ /\ getStationPriority(station.name) = getStationPriority(best.name)
       /\ station.distance < best.distance

\* The Map groups after the first n stations, as the sequence of its
\* entries in insertion order: [baseName, bestRepresentative]
RECURSIVE GroupsAfter(_, _)
GroupsAfter(input, n) ==
    IF n = 0 THEN <<>>
    ELSE LET groups == GroupsAfter(input, n - 1)
             station == input[n]
             baseName == extractBaseName(station.name)
             at == {g \in DOMAIN groups : groups[g].baseName = baseName}
         IN IF at = {}
            THEN Append(groups, [baseName |-> baseName, bestRepresentative |-> station])
            ELSE LET g == CHOOSE x \in at : TRUE
                 IN IF ReplacesBest(station, groups[g].bestRepresentative)
                    THEN [groups EXCEPT ![g].bestRepresentative = station]
                    ELSE groups

\* .sort((a, b) => a.distance - b.distance): a stable sort, by insertion
RECURSIVE InsertByDistance(_, _)
InsertByDistance(sorted, station) ==
    IF sorted = <<>> THEN <<station>>
    ELSE IF sorted[Len(sorted)].distance <= station.distance
         THEN Append(sorted, station)
         ELSE Append(InsertByDistance(SubSeq(sorted, 1, Len(sorted) - 1), station),
                     sorted[Len(sorted)])

RECURSIVE SortPrefix(_, _)
SortPrefix(list, n) ==
    IF n = 0 THEN <<>> ELSE InsertByDistance(SortPrefix(list, n - 1), list[n])

Unsorted(list) == list
SortByDistance(list) == SortPrefix(list, Len(list))

deduplicateStations(input) ==
    LET groups == GroupsAfter(input, Len(input))
    IN SortByDistance([g \in DOMAIN groups |-> groups[g].bestRepresentative])

\* ---- the inputs of the deduplication specification ----
StationNames ==
    {<<"KENT", "MRT", "STATION">>,
     <<"KENT", "MRT", "STATION", "(CC24)">>,
     <<"KENT", "MRT", "STATION", "EXIT", "A">>,
     <<"KENT", "MRT", "STATION", "EXIT", "B">>,
     <<"KENT", "EXIT", "A">>,
     <<"KENT", "(CC24)">>,
     <<"KENT", "MRT", "STATION", "2">>,
     <<"BUONA", "MRT", "STATION">>}

Distances == {5, 20, 30}

StationRecords == {[name |-> n, distance |-> d] : n \in StationNames, d \in Distances}

DedupIdle ==
    /\ stations = <<>>
    /\ deduped = <<>>
    /\ dedupDone = FALSE

InitDedup ==
    /\ stations \in SeqsUpTo(StationRecords, MaxStations)
    /\ deduped = <<>>
    /\ dedupDone = FALSE

\* One call of deduplicateStations(stations)
Deduplicate ==
    /\ DedupStep
    /\ ~dedupDone
    /\ deduped' = deduplicateStations(stations)
    /\ dedupDone' = TRUE
    /\ UNCHANGED stations

(***************************************************************************)
(* QUARTER DECODING (DatabaseManager.parseToQuarter)                       *)
(*                                                                         *)
(* A date is a string of four decimal digits, here the sequence of its     *)
(* digits; parseInt of a two-digit substring is its decimal value.         *)
(***************************************************************************)
DateStrings == [1..4 -> 0..9]

\* parseInt(mmyyDate.substring(from, from + 2)), from counted from 1
parseInt2(str, from) == 10 * str[from] + str[from + 1]

\* year < 50 ? 2000 + year : 1900 + year
fullYearPivotIncluded(year) == IF year <= 50 THEN 2000 + year ELSE 1900 + year
fullYearOf(year) == IF year < 50 THEN 2000 + year ELSE 1900 + year

\* Math.ceil(month / 3)
quarterFloor(month) == month \div 3
quarterOf(month) == (month + 2) \div 3

\* fullYear.toString().substring(2): the digits after the first two (a full
\* year has four digits, from 1950 to 2049)
yearSuffix(fullYear) == <<(fullYear \div 10) % 10, fullYear % 10>>

\* parseToQuarter(mmyyDate): the locals of the call, and the label
\* `Q${quarter}'${suffix}` as the pair of its quarter and its suffix
parseToQuarter(str) ==
    LET month == parseInt2(str, 1)
        year == parseInt2(str, 3)
        fullYear == fullYearOf(year)
        quarter == quarterOf(month)
    IN [done |-> TRUE, month |-> month, year |-> year, fullYear |-> fullYear,
        label |-> [quarter |-> quarter, suffix |-> yearSuffix(fullYear)]]

NotParsed ==
    [done |-> FALSE, month |-> 0, year |-> 0, fullYear |-> 0,
     label |-> [quarter |-> 0, suffix |-> <<0, 0>>]]

QuarterIdle ==
    /\ mmyyDate = <<0, 0, 0, 0>>
    /\ parsed = NotParsed

InitQuarter ==
    /\ mmyyDate \in DateStrings
    /\ parsed = NotParsed

\* One call of parseToQuarter(mmyyDate)
ParseToQuarter ==
    /\ QuarterStep
    /\ ~parsed.done
    /\ parsed' = parseToQuarter(mmyyDate)
    /\ UNCHANGED mmyyDate

(***************************************************************************)
(* ENRICHMENT AND PRICE TREND (enrichPropertyData, calculatePriceTrends)   *)
(*                                                                         *)
(* A transaction row is [id, price, area, contract_date]: price in         *)
(* dollars, area in square metres, the date a string of four digits.  A    *)
(* price per square foot is kept in tenths of a dollar.                    *)
(***************************************************************************)
MaxHistory == 2
RECENT_LIMIT == 10
TREND_QUARTERS == 20
SQF_PER_SQM_MILLI == 10764
MIN_PSF == 200
MAX_PSF == 10000

\* a < b for two strings of digits of the same length
RECURSIVE StrLess(_, _)
StrLess(a, b) ==
    /\ a # <<>>
    /\ \/ Head(a) < Head(b)
       \/ Head(a) = Head(b) /\ StrLess(Tail(a), Tail(b))

\* ORDER BY contract_date DESC LIMIT limit: the first rows in an order of
\* descending date string; rows of the same date come in whatever order the
\* database yields.
RECURSIVE OrderByDateDesc(_, _)
OrderByDateDesc(rows, limit) ==
    IF rows = {} \/ limit = 0 THEN {<<>>}
    ELSE UNION {{<<m>> \o rest : rest \in OrderByDateDesc(rows \ {m}, limit - 1)} :
                   m \in {r \in rows :
                             \A q \in rows : ~StrLess(r.contract_date, q.contract_date)}}

\* SELECT * FROM transactions WHERE property_id = ?
\*   ORDER BY contract_date DESC LIMIT 10
selectAllTransactions(table) ==
    OrderByDateDesc({table[k] : k \in DOMAIN table}, Len(table))
selectRecentTransactions(table) ==
    OrderByDateDesc({table[k] : k \in DOMAIN table}, RECENT_LIMIT)

\* transactions.filter(t => t.price > 0 && t.area > 0)
isValidTransaction(t) == t.price > 0 /\ t.area > 0

\* pricePerSqf = t.price / (t.area * 10.764), as the fraction num / den.
\* The code holds the quotient in a double, which is off the fraction by
\* parts in 10^16: that shows where the quotient is compared with a bound
\* it equals (isOutlier), and cannot move Math.round of an average whose
\* distance to a half is 1 / (2 * den * count) or more.
pricePerSqf(t) == [num |-> 1000 * t.price, den |-> t.area * SQF_PER_SQM_MILLI]

\* The areas up to 20 sqm for which the double
\* (10000 * 10.764 * area) / (area * 10.764) is 10000.000000000002 and not
\* 10000: the product area * 10.764 is rounded down to the double below.
\* At the other bound the double (200 * 10.764 * area) / (area * 10.764) is
\* 200 or 200.00000000000003 for every area, never below 200.
AreasAboveAtMax == {5, 9, 10, 15, 18, 20}

\* if (pricePerSqf < 200 || pricePerSqf > 10000) return -- skip outliers
isOutlier(t) ==
    LET q == pricePerSqf(t)
    IN \/ q.num < MIN_PSF * q.den
       \/ q.num > MAX_PSF * q.den
       \/ q.num = MAX_PSF * q.den /\ t.area \in AreasAboveAtMax

\* The transactions that reach the quarterly Map, in their order
contributes(t) == isValidTransaction(t) /\ ~isOutlier(t)
contributing(transactions) == SelectSeq(transactions, contributes)

quarterLabel(t) == parseToQuarter(t.contract_date).label

\* The keys of quarterlyData in insertion order
RECURSIVE quarterKeys(_)
quarterKeys(ts) ==
    IF ts = <<>> THEN <<>>
    ELSE LET front == quarterKeys(SubSeq(ts, 1, Len(ts) - 1))
             key == quarterLabel(ts[Len(ts)])
         IN IF key \in Range(front) THEN front ELSE Append(front, key)

\* data.count and data.pricePerSqfSum of one key
RECURSIVE bucketCount(_, _)
bucketCount(ts, key) ==
    IF ts = <<>> THEN 0
    ELSE bucketCount(Tail(ts), key) + (IF quarterLabel(Head(ts)) = key THEN 1 ELSE 0)

\* data.pricePerSqfSum of one key, as the fraction num / den: the quotients
\* are added over the least common multiple of their denominators
RECURSIVE gcd(_, _)
gcd(a, b) == IF b = 0 THEN a ELSE gcd(b, a % b)

RECURSIVE commonArea(_, _)
commonArea(ts, key) ==
    IF ts = <<>> THEN 1
    ELSE LET rest == commonArea(Tail(ts), key)
             area == Head(ts).area
         IN IF quarterLabel(Head(ts)) = key
            THEN (rest \div gcd(rest, area)) * area
            ELSE rest

RECURSIVE priceOverArea(_, _, _)
priceOverArea(ts, key, common) ==
    IF ts = <<>> THEN 0
    ELSE priceOverArea(Tail(ts), key, common)
            + (IF quarterLabel(Head(ts)) = key
               THEN Head(ts).price * (common \div Head(ts).area)
               ELSE 0)

pricePerSqfSum(ts, key) ==
    LET common == commonArea(ts, key)
    IN [num |-> 1000 * priceOverArea(ts, key, common),
        den |-> common * SQF_PER_SQM_MILLI]

\* Math.round(n / d) for n >= 0 and d > 0
roundDiv(n, d) == n \div d + (IF 2 * (n % d) >= d THEN 1 ELSE 0)

\* trends.sort(...): the comparator reads the year with
\* parseInt(quarter.substring(2)), and the substring starts at the
\* apostrophe ("'24"), so both years are NaN, aYear !== bYear holds and the
\* comparator returns NaN, which sort takes as 0: the stable sort leaves the
\* trends in the Map's insertion order.
sortTrends(trends) == trends

\* trends.slice(-20)
lastQuarters(trends) ==
    SubSeq(trends, Max(1, Len(trends) - TREND_QUARTERS + 1), Len(trends))

calculatePriceTrends(transactions) ==
    LET ts == contributing(transactions)
        keys == quarterKeys(ts)
    IN lastQuarters(sortTrends(
         [n \in DOMAIN keys |->
            [quarter |-> keys[n],
             avgPricePerSqf |->
                 roundDiv(pricePerSqfSum(ts, keys[n]).num,
                          pricePerSqfSum(ts, keys[n]).den * bucketCount(ts, keys[n])),
             transactionCount |-> bucketCount(ts, keys[n])]]))

\* ORDER BY lease_date DESC: the rows in an order of descending date string
RECURSIVE OrderByLeaseDateDesc(_)
OrderByLeaseDateDesc(rows) ==
    IF rows = {} THEN {<<>>}
    ELSE UNION {{<<m>> \o rest : rest \in OrderByLeaseDateDesc(rows \ {m})} :
                   m \in {r \in rows :
                             \A q \in rows : ~StrLess(r.lease_date, q.lease_date)}}

\* SELECT * FROM rentals WHERE property_id = ?
\*   ORDER BY lease_date DESC LIMIT 10
selectRecentRentals(table) ==
    {Limit(ordered, RECENT_LIMIT) :
        ordered \in OrderByLeaseDateDesc({table[k] : k \in DOMAIN table})}

\* rentals.filter(r => r.rent > 0)
isValidRental(r) == r.rent > 0

leaseQuarter(r) == parseToQuarter(r.lease_date).label

\* The keys of quarterlyRentals in insertion order
RECURSIVE leaseQuarterKeys(_)
leaseQuarterKeys(rs) ==
    IF rs = <<>> THEN <<>>
    ELSE LET front == leaseQuarterKeys(SubSeq(rs, 1, Len(rs) - 1))
             key == leaseQuarter(rs[Len(rs)])
         IN IF key \in Range(front) THEN front ELSE Append(front, key)

\* data.count and the sum of data.rents of one key
RECURSIVE rentCount(_, _)
rentCount(rs, key) ==
    IF rs = <<>> THEN 0
    ELSE rentCount(Tail(rs), key) + (IF leaseQuarter(Head(rs)) = key THEN 1 ELSE 0)

RECURSIVE rentSum(_, _)
rentSum(rs, key) ==
    IF rs = <<>> THEN 0
    ELSE rentSum(Tail(rs), key)
            + (IF leaseQuarter(Head(rs)) = key THEN Head(rs).rent ELSE 0)

\* Array.from(quarterlyRentals.keys()).sort(...): the comparator reads the
\* year with parseInt(a.substring(2)) as the one of calculatePriceTrends
\* does, returns NaN, and the keys stay in the Map's insertion order.
sortQuartersDescending(quarters) == quarters

\* getRecentRentalInfo (defined FALSE: undefined)
NoRentalInfo ==
    [defined |-> FALSE, avgRent |-> 0,
     quarter |-> [quarter |-> 0, suffix |-> <<0, 0>>], rentalCount |-> 0]
getRecentRentalInfo(recentRentals) ==
    LET valid == SelectSeq(recentRentals, isValidRental)
        quarters == sortQuartersDescending(leaseQuarterKeys(valid))
    IN IF valid = <<>> THEN NoRentalInfo
       ELSE [defined |-> TRUE,
             avgRent |-> roundDiv(rentSum(valid, quarters[1]),
                                  rentCount(valid, quarters[1])),
             quarter |-> quarters[1],
             rentalCount |-> rentCount(valid, quarters[1])]

\* enrichPropertyData: recentTransactions, recentRentals, pricePerSqfTrend,
\* latestPrice (-1: undefined) and recentRentalInfo
enrichPropertyData(table, rentalTable) ==
    {[done |-> TRUE,
      recentTransactions |-> recent,
      recentRentals |-> recentRentals,
      pricePerSqfTrend |-> calculatePriceTrends(recent),
      latestPrice |-> IF Len(recent) > 0 THEN recent[1].price ELSE -1,
      recentRentalInfo |-> getRecentRentalInfo(recentRentals)] :
        recent \in selectRecentTransactions(table),
        recentRentals \in selectRecentRentals(rentalTable)}

\* ---- the inputs of the enrichment specification ----
\* Price and area pairs: no price, no area, 93 $/sqf (too low),
\* 18,580 $/sqf (too high), 1,000 $/sqf, 1,000.46 $/sqf, 1,000.56 $/sqf,
\* 10,000 $/sqf on 1 sqm and 10,000 $/sqf on 5 sqm.
PriceAreas ==
    {<<0, 1>>, <<10764, 0>>, <<1000, 1>>, <<200000, 1>>,
     <<10764, 1>>, <<10769, 1>>, <<10770, 1>>, <<107640, 1>>, <<538200, 5>>}
ContractDates == {<<0, 1, 2, 4>>, <<0, 2, 2, 4>>, <<0, 4, 2, 4>>}
TransactionRows ==
    {[price |-> pa[1], area |-> pa[2], contract_date |-> d] :
        pa \in PriceAreas, d \in ContractDates}

\* Rentals: no rent in January 2024, 3,000 a month let in December 2023,
\* 3,200 a month let in January 2024
RentalRows ==
    {[rent |-> 0, lease_date |-> <<0, 1, 2, 4>>],
     [rent |-> 3000, lease_date |-> <<1, 2, 2, 3>>],
     [rent |-> 3200, lease_date |-> <<0, 1, 2, 4>>]}

NotEnriched ==
    [done |-> FALSE, recentTransactions |-> <<>>, recentRentals |-> <<>>,
     pricePerSqfTrend |-> <<>>, latestPrice |-> -1,
     recentRentalInfo |-> NoRentalInfo]

\* INSERT INTO transactions / rentals, once for each row of the feed, in
\* the order of the feed: AUTOINCREMENT gives each row the id after the
\* greatest id the table ever held (seq), whatever has been deleted since.
insertRows(table, seq, feed) ==
    table \o [k \in 1..Len(feed) |-> [id |-> seq + k] @@ feed[k]]

NoSequence == [transactions |-> 0, rentals |-> 0]

TrendIdle ==
    /\ history = <<>>
    /\ rentals = <<>>
    /\ sqliteSequence = NoSequence
    /\ initCalls = <<>>
    /\ enriched = NotEnriched

\* A property with up to MaxHistory rows of transactions and rentals in all,
\* inserted by the first ingestion
InitTrend ==
    /\ \E sales \in SeqsUpTo(TransactionRows, MaxHistory),
          lets \in SeqsUpTo(RentalRows, MaxHistory) :
          /\ Len(sales) + Len(lets) <= MaxHistory
          /\ history = insertRows(<<>>, 0, sales)
          /\ rentals = insertRows(<<>>, 0, lets)
          /\ sqliteSequence = [transactions |-> Len(sales), rentals |-> Len(lets)]
    /\ initCalls = <<>>
    /\ enriched = NotEnriched

\* ---- a long sales history: a database that holds one project, filled by
\* calls of init_property_database.  Each call constructs its own
\* DatabaseManager and URAClient, so the feeds of two calls are fetched
\* separately, and the server takes a call while another awaits its feed.
\* A search may run at any point between the steps of the calls; on emptied
\* tables it has no row to enrich and the enrichment shown is that of no
\* transaction and no rental. ----
MaxLong == 12

\* The calls of the tool: the second is made while the first awaits a feed
\* (the two ingestions overlap) or after it (a refresh)
InitCallers == {"first", "second"}

\* The first month of quarter n, counted from the first quarter of 2022
QuarterStart(n) ==
    LET month == 1 + 3 * (n % 4)
        year == 22 + n \div 4
    IN <<month \div 10, month % 10, year \div 10, year % 10>>

\* Month k of 2025
MonthOf2025(k) == <<k \div 10, k % 10, 2, 5>>

\* What URA lists for the project, as the sequence of its transactions in
\* the order of the feed; the feed gives no order.  Each sale is of 1 sqm.
\*   descending: one sale of 1,000 $/sqf in the first month of each of n
\*       quarters, newest first
\*   sameDate: one sale in each month of 2025 from January on, and a
\*       second one in the month that is tenth from the last
\*   outliers: one sale in the first month of each of n quarters, oldest
\*       first, every third sale at 18,580 $/sqf and every third at no price
FeedKinds == {"descending", "sameDate", "outliers"}

TransactionFeed(kind, n) ==
    [k \in 1..n |->
        CASE kind = "descending" ->
               [price |-> 10764, area |-> 1, contract_date |-> QuarterStart(n - k)]
          [] kind = "sameDate" ->
               [price |-> 10764, area |-> 1,
                contract_date |-> MonthOf2025(IF k <= Max(1, n - RECENT_LIMIT)
                                              THEN k ELSE k - 1)]
          [] OTHER ->
               [price |-> CASE k % 3 = 0 -> 200000 [] k % 3 = 2 -> 0 [] OTHER -> 10764,
                area |-> 1, contract_date |-> QuarterStart(k - 1)]]

\* The project is missing from the feed (or every batch failed), has one
\* sale, as many sales as the query reads, or more
FeedLengths == {0, 1, RECENT_LIMIT, MaxLong}

TransactionFeeds ==
    {TransactionFeed(kind, n) : kind \in FeedKinds, n \in FeedLengths}

\* The rentals URA lists for the project
RentalFeeds ==
    {<<>>,
     <<[rent |-> 3000, lease_date |-> <<1, 2, 2, 3>>],
       [rent |-> 3200, lease_date |-> <<0, 1, 2, 4>>]>>}

\* The arguments of init_property_database
InitArgs ==
    [load_transactions : BOOLEAN, load_rentals : BOOLEAN, force_refresh : BOOLEAN]

NoInitCall == [pc |-> "idle", loadRentals |-> FALSE]

InitLong ==
    /\ history = <<>>
    /\ rentals = <<>>
    /\ sqliteSequence = NoSequence
    /\ initCalls = [c \in InitCallers |-> NoInitCall]
    /\ enriched = NotEnriched

\* handleInitPropertyDatabase up to its first await: getStats(), the early
\* return of an initialized database, and the DELETE at the start of the
\* first ingestion it runs.  The behaviour ends with the enrichment, whose
\* result is compared with the tables it read.
HandleInitPropertyDatabase(c, args) ==
    /\ TrendStep
    /\ ~enriched.done
    /\ initCalls[c].pc = "idle"
    /\ c = "second" => initCalls["first"].pc # "idle"
    /\ LET hasTransactions == Len(history) > 0
           hasRentals == Len(rentals) > 0
           loadTransactions ==
               args.load_transactions /\ (args.force_refresh \/ ~hasTransactions)
           loadRentals ==
               args.load_rentals /\ (args.force_refresh \/ ~hasRentals)
       IN IF ~args.force_refresh /\ hasTransactions /\ hasRentals
          THEN /\ initCalls' = [initCalls EXCEPT ![c].pc = "returned"]
               /\ UNCHANGED <<history, rentals>>
          ELSE IF loadTransactions
          THEN /\ history' = <<>>
               /\ initCalls' = [initCalls EXCEPT
                                   ![c] = [pc |-> "transactions",
                                           loadRentals |-> loadRentals]]
               /\ UNCHANGED rentals
          ELSE IF loadRentals
          THEN /\ rentals' = <<>>
               /\ initCalls' = [initCalls EXCEPT ![c].pc = "rentals"]
               /\ UNCHANGED history
          ELSE /\ initCalls' = [initCalls EXCEPT ![c].pc = "returned"]
               /\ UNCHANGED <<history, rentals>>
    /\ UNCHANGED <<sqliteSequence, enriched>>

\* getAllPropertyTransactions() of call c returns: ingestTransactionData
\* inserts the rows of the feed in one database transaction; the handler
\* goes on to the ingestion of the rentals, whose DELETE runs in the same
\* turn, when it decided so at its start.
TransactionFeedArrives(c, feed) ==
    /\ TrendStep
    /\ ~enriched.done
    /\ initCalls[c].pc = "transactions"
    /\ history' = insertRows(history, sqliteSequence.transactions, feed)
    /\ sqliteSequence' = [sqliteSequence EXCEPT !.transactions = @ + Len(feed)]
    /\ IF initCalls[c].loadRentals
       THEN /\ rentals' = <<>>
            /\ initCalls' = [initCalls EXCEPT ![c].pc = "rentals"]
       ELSE /\ initCalls' = [initCalls EXCEPT ![c].pc = "returned"]
            /\ UNCHANGED rentals
    /\ UNCHANGED enriched

\* getRecentPropertyRentals(8) of call c returns: ingestRentalData inserts
\* the rows of the feed and the handler returns.
RentalFeedArrives(c, feed) ==
    /\ TrendStep
    /\ ~enriched.done
    /\ initCalls[c].pc = "rentals"
    /\ rentals' = insertRows(rentals, sqliteSequence.rentals, feed)
    /\ sqliteSequence' = [sqliteSequence EXCEPT !.rentals = @ + Len(feed)]
    /\ initCalls' = [initCalls EXCEPT ![c].pc = "returned"]
    /\ UNCHANGED <<history, enriched>>

\* handleSearchProperties: the branch that formats the price trend
CONDENSE_ABOVE == 12
trendFormat(trends) ==
    IF Len(trends) > CONDENSE_ABOVE THEN "yearly"
    ELSE IF Len(trends) > 1 THEN "full"
    ELSE IF Len(trends) > 0 THEN "single"
    ELSE "none"

\* One call of enrichPropertyData(property)
EnrichPropertyData ==
    /\ TrendStep
    /\ ~enriched.done
    /\ enriched' \in enrichPropertyData(history, rentals)
    /\ UNCHANGED <<history, rentals, sqliteSequence, initCalls>>

(***************************************************************************)
(* PLANNING ZONES (PlanningZoneClient, searchPlanningZones,                *)
(* handleSearchProperties)                                                 *)
(*                                                                         *)
(* The server awaits each handler with no queue and no lock, so a tool     *)
(* call is taken while earlier handlers are suspended on their requests.   *)
(* Each handler call constructs its own PlanningZoneClient.                *)
(* search_planning_zones awaits oneMapClient.searchLocation and then asks  *)
(* its client for one analysis.  handleSearchProperties defines            *)
(* getPlanningZoneInfo, the function that asks for an analysis, and never  *)
(* calls it: its client is constructed and left unused.                    *)
(***************************************************************************)
MaxZoneCalls == 4

ZoneTools == {"search_planning_zones", "search_properties"}

\* new PlanningZoneClient(): zones = [], isLoaded = false, loadingPromise = null
NewPlanningZoneClient == [zones |-> "empty", isLoaded |-> FALSE, loadingPromise |-> "null"]

\* The file at dataPath: absent, valid (a GeoJSON feature collection), or
\* broken (present, but readFileSync, JSON.parse or the mapping of the
\* features throws: a directory, an empty or cut-off file, no features)
FileStates == {"absent", "valid", "broken"}

\* _loadDataInternal(): throws when the file is missing; else reads the
\* file and parses it, and either throws or sets zones and isLoaded; the
\* catch block rethrows.  It holds no await, so it has run to its end when
\* loadData assigns loadingPromise.
\* runs counts the calls of _loadDataInternal, reads those that read the file.
loadDataInternalLoadedFirst(client, file) ==
    [client |-> [client EXCEPT !.zones = IF file = "valid" THEN "parsed" ELSE @,
                               !.isLoaded = TRUE],
     reads |-> IF file = "absent" THEN 0 ELSE 1, runs |-> 1,
     settled |-> IF file = "valid" THEN "resolved" ELSE "rejected"]
loadDataInternal(client, file) ==
    CASE file = "valid" ->
           [client |-> [client EXCEPT !.zones = "parsed", !.isLoaded = TRUE],
            reads |-> 1, runs |-> 1, settled |-> "resolved"]
      [] file = "broken" ->
           [client |-> client, reads |-> 1, runs |-> 1, settled |-> "rejected"]
      [] OTHER ->
           [client |-> client, reads |-> 0, runs |-> 1, settled |-> "rejected"]

\* loadData(): [client, reads, runs, settled]
loadDataUnguarded(client, file) ==
    LET r == loadDataInternal(client, file)
    IN [client |-> [r.client EXCEPT !.loadingPromise = r.settled],
        reads |-> r.reads, runs |-> r.runs, settled |-> r.settled]
loadData(client, file) ==
    IF client.isLoaded
    THEN [client |-> client, reads |-> 0, runs |-> 0, settled |-> "resolved"]
    ELSE IF client.loadingPromise # "null"
    THEN [client |-> client, reads |-> 0, runs |-> 0,
          settled |-> client.loadingPromise]
    ELSE LET r == loadDataInternal(client, file)
         IN [client |-> [r.client EXCEPT !.loadingPromise = r.settled],
             reads |-> r.reads, runs |-> r.runs, settled |-> r.settled]

\* getPlanningZoneAnalysis: await loadData(), then findPlanningZone and
\* findNearbyZones, each of which awaits loadData() again
getPlanningZoneAnalysis(client, file) ==
    LET own == loadData(client, file)
        zone == loadData(own.client, file)
        nearby == loadData(zone.client, file)
    IN IF own.settled = "rejected"
       THEN [client |-> own.client, reads |-> own.reads, settled |-> "rejected"]
       ELSE [client |-> nearby.client,
             reads |-> own.reads + zone.reads + nearby.reads,
             settled |-> nearby.settled]

ZoneIdle ==
    /\ dataFile = "absent"
    /\ fileReads = 0
    /\ zoneHandler = <<>>
    /\ zoneClient = <<>>

InitZones ==
    /\ dataFile \in FileStates
    /\ fileReads = 0
    /\ zoneHandler = <<>>
    /\ zoneClient = <<>>

\* The process takes a tool call: the handler constructs its client and runs
\* to its first await (the search or the conversion of the location).
HandleZoneTool(tool) ==
    /\ ZoneStep
    /\ Len(zoneHandler) < MaxZoneCalls
    /\ zoneHandler' = Append(zoneHandler, [pc |-> "serving", tool |-> tool])
    /\ zoneClient' = Append(zoneClient, NewPlanningZoneClient)
    /\ UNCHANGED <<dataFile, fileReads>>

\* searchLocation gives handler h of search_planning_zones a location: the
\* handler awaits planningZoneClient.getPlanningZoneAnalysis(...), whose
\* awaits are promise jobs of the same turn, and returns its response (the
\* analysis, or the error of its catch block).
GetPlanningZoneAnalysis(h) ==
    /\ ZoneStep
    /\ zoneHandler[h].pc = "serving"
    /\ zoneHandler[h].tool = "search_planning_zones"
    /\ LET r == getPlanningZoneAnalysis(zoneClient[h], dataFile)
       IN /\ zoneClient' = [zoneClient EXCEPT ![h] = r.client]
          /\ fileReads' = fileReads + r.reads
    /\ zoneHandler' = [zoneHandler EXCEPT ![h].pc = "returned"]
    /\ UNCHANGED dataFile

\* Handler h returns with no analysis asked for: search_planning_zones when
\* the location is not found or the search throws, search_properties always.
ZoneHandlerReturns(h) ==
    /\ ZoneStep
    /\ zoneHandler[h].pc = "serving"
    /\ zoneHandler' = [zoneHandler EXCEPT ![h].pc = "returned"]
    /\ UNCHANGED <<dataFile, fileReads, zoneClient>>

(***************************************************************************)
(* CONCURRENT CALLERS OF ONE PlanningZoneClient                            *)
(*                                                                         *)
(* Each caller calls one public method of the client; the method begins    *)
(* with "await this.loadData()".  The call runs loadData to its return in  *)
(* one turn (neither loadData nor _loadDataInternal holds an await), the   *)
(* caller is then suspended on the promise, and resumes in a later turn.   *)
(* Callers call and resume in any order; the file may come and go.         *)
(***************************************************************************)
MaxCallers == 3

\* The public methods of the client; each begins with "await this.loadData()"
ClientMethods ==
    {"findPlanningZone", "findNearbyZones", "getPlanningZoneAnalysis",
     "getZoneCount", "getLandUseTypes"}

\* What the method does with the client once its own await has resumed:
\* getPlanningZoneAnalysis calls findPlanningZone and findNearbyZones, each
\* of which calls loadData again; the other methods only read this.zones.
afterLoadData(client, file, method) ==
    IF method = "getPlanningZoneAnalysis"
    THEN LET zone == loadData(client, file)
             nearby == loadData(zone.client, file)
         IN [client |-> nearby.client, runs |-> zone.runs + nearby.runs,
             settled |-> IF zone.settled = "rejected" THEN "rejected"
                         ELSE nearby.settled]
    ELSE [client |-> client, runs |-> 0, settled |-> "resolved"]

\* A caller that has not called yet
NotCalled == [pc |-> "idle", method |-> "none", settled |-> "none", fileSeen |-> FALSE]

LoaderIdle ==
    /\ loaderClient = NewPlanningZoneClient
    /\ loaderFile = "absent"
    /\ callers = <<>>
    /\ loadRuns = 0

InitLoader ==
    /\ loaderClient = NewPlanningZoneClient
    /\ loaderFile \in FileStates
    /\ callers = [c \in 1..MaxCallers |-> NotCalled]
    /\ loadRuns = 0

\* Caller c calls the method: "await this.loadData()" runs loadData and
\* suspends the caller on the promise it returned.  fileSeen records whether
\* a valid file was on disk during the call.
CallClientMethod(c, method) ==
    /\ LoaderStep
    /\ callers[c].pc = "idle"
    /\ LET r == loadData(loaderClient, loaderFile)
       IN /\ loaderClient' = r.client
          /\ loadRuns' = loadRuns + r.runs
          /\ callers' = [callers EXCEPT ![c] =
                [pc |-> "awaiting", method |-> method, settled |-> r.settled,
                 fileSeen |-> loaderFile = "valid"]]
    /\ UNCHANGED loaderFile

\* The await of caller c resumes: the rejection is thrown to the method's
\* caller, or the method goes on (its further awaits are promise jobs of the
\* same turn) and returns.
LoadDataSettles(c) ==
    /\ LoaderStep
    /\ callers[c].pc = "awaiting"
    /\ IF callers[c].settled = "rejected"
       THEN /\ callers' = [callers EXCEPT ![c].pc = "failed"]
            /\ UNCHANGED <<loaderClient, loadRuns>>
       ELSE LET r == afterLoadData(loaderClient, loaderFile, callers[c].method)
            IN /\ loaderClient' = r.client
               /\ loadRuns' = loadRuns + r.runs
               /\ callers' = [callers EXCEPT ![c].pc =
                     IF r.settled = "rejected" THEN "failed" ELSE "returned"]
    /\ UNCHANGED loaderFile

\* The file at dataPath changes: it is put in place, replaced or removed
DataFileChanges ==
    /\ LoaderStep
    /\ loaderFile' \in FileStates \ {loaderFile}
    /\ UNCHANGED <<loaderClient, callers, loadRuns>>

(***************************************************************************)
(* ROUTE CLIENT (OneMapClient.calculateRoute, convertWGS84ToSVY21,         *)
(* AuthManager.getToken)                                                   *)
(*                                                                         *)
(* Concurrent callers of one client: callers of calculateRoute with one    *)
(* and the same arguments, hence one cache key, and callers of             *)
(* convertWGS84ToSVY21 with one and the same point.  A call runs up to its *)
(* next await in one turn; the HTTP requests (the token POST, the routing  *)
(* GET, the conversion GET) return in later turns, in any order.  An entry *)
(* of a cache is gone when its time to live has passed.                    *)
(***************************************************************************)
MaxRouteCalls == 3

\* What the token POST ends in: a token with ttl > 0, a token with ttl <= 0
\* (less than the one-hour buffer left), or an error
TokenOutcomes == {"granted", "grantedShort", "refused"}

\* What the routing GET ends in: a route, a body with error / message set,
\* HTTP 401, HTTP 503
RouteOutcomes == {"ok", "noRoute", "s401", "s503"}

\* What the conversion GET ends in: a body with X and Y, a body without
\* them, HTTP 401
ConvertOutcomes == {"ok", "invalid", "s401"}

NoRouteCall ==
    [pc |-> "idle", method |-> "none", tokenPosts |-> 0, routeGets |-> 0,
     clears |-> 0, error |-> "none"]

ClientIdle ==
    /\ tokenCache = "none"
    /\ routeCache = FALSE
    /\ convertCache = FALSE
    /\ routeCalls = <<>>

InitClient ==
    /\ tokenCache = "none"
    /\ routeCache = FALSE
    /\ convertCache = FALSE
    /\ routeCalls = [c \in 1..MaxRouteCalls |-> NoRouteCall]

\* getToken up to its await: a cached token is returned and the caller
\* sends its GET; on a miss the token POST is sent.
getToken(call, sending) ==
    IF tokenCache # "none"
    THEN [call EXCEPT !.pc = sending,
                      !.routeGets = IF sending = "routing" THEN @ + 1 ELSE @]
    ELSE [call EXCEPT !.pc = "authenticating", !.tokenPosts = @ + 1]

\* calculateRoute is called: the route cache is looked up; on a miss
\* getToken looks up the token cache and, on a miss there, posts for a
\* token; with a cached token the routing GET is sent.
CalculateRoute(c) ==
    /\ ClientStep
    /\ routeCalls[c].pc = "idle"
    /\ routeCalls' = [routeCalls EXCEPT ![c] =
          IF routeCache
          THEN [@ EXCEPT !.pc = "returned", !.method = "calculateRoute"]
          ELSE getToken([@ EXCEPT !.method = "calculateRoute"], "routing")]
    /\ UNCHANGED <<tokenCache, routeCache, convertCache>>

\* convertWGS84ToSVY21 is called: the cache is looked up; on a miss
\* getToken is called as in calculateRoute, and with a cached token the
\* conversion GET is sent.
ConvertWGS84ToSVY21(c) ==
    /\ ClientStep
    /\ routeCalls[c].pc = "idle"
    /\ routeCalls' = [routeCalls EXCEPT ![c] =
          IF convertCache
          THEN [@ EXCEPT !.pc = "returned", !.method = "convertWGS84ToSVY21"]
          ELSE getToken([@ EXCEPT !.method = "convertWGS84ToSVY21"], "converting")]
    /\ UNCHANGED <<tokenCache, routeCache, convertCache>>

\* The token POST of caller c returns: getToken caches the token when
\* ttl > 0 and returns it, and the caller's method sends its GET; an error
\* is rethrown by getToken and again by the method.
TokenPostReturns(c, o) ==
    /\ ClientStep
    /\ routeCalls[c].pc = "authenticating"
    /\ tokenCache' = IF o = "granted" THEN "token" ELSE tokenCache
    /\ LET routing == routeCalls[c].method = "calculateRoute"
       IN routeCalls' = [routeCalls EXCEPT ![c] =
            IF o = "refused"
            THEN [@ EXCEPT !.pc = "failed",
                           !.error = IF routing THEN "Failed to calculate route"
                                     ELSE "Failed to convert coordinates"]
            ELSE IF routing
            THEN [@ EXCEPT !.pc = "routing", !.routeGets = @ + 1]
            ELSE [@ EXCEPT !.pc = "converting"]]
    /\ UNCHANGED <<routeCache, convertCache>>

\* The routing GET of caller c returns: a route is cached for 86400 s and
\* returned, a body with error or message is returned uncached; on 401 the
\* token is cleared and an Error thrown; any other status is thrown with
\* its code.
RouteGetReturns(c, o) ==
    /\ ClientStep
    /\ routeCalls[c].pc = "routing"
    /\ routeCache' = IF o = "ok" THEN TRUE ELSE routeCache
    /\ tokenCache' = IF o = "s401" THEN "none" ELSE tokenCache
    /\ routeCalls' = [routeCalls EXCEPT ![c] =
          CASE o = "s401" ->
                 [@ EXCEPT !.pc = "failed", !.clears = @ + 1,
                           !.error = "Authentication failed"]
            [] o = "s503" ->
                 [@ EXCEPT !.pc = "failed", !.error = "Failed to calculate route"]
            [] OTHER -> [@ EXCEPT !.pc = "returned"]]
    /\ UNCHANGED convertCache

\* The conversion GET of caller c returns: a body with X and Y is cached for
\* 86400 s and returned; a body without them and every HTTP error are
\* thrown as "Failed to convert coordinates" (the token is not cleared).
ConvertGetReturns(c, o) ==
    /\ ClientStep
    /\ routeCalls[c].pc = "converting"
    /\ convertCache' = IF o = "ok" THEN TRUE ELSE convertCache
    /\ routeCalls' = [routeCalls EXCEPT ![c] =
          IF o = "ok" THEN [@ EXCEPT !.pc = "returned"]
          ELSE [@ EXCEPT !.pc = "failed", !.error = "Failed to convert coordinates"]]
    /\ UNCHANGED <<tokenCache, routeCache>>

\* The TTL of the token entry runs out (the expiry less the one-hour buffer)
TokenEntryExpires ==
    /\ ClientStep
    /\ tokenCache # "none"
    /\ tokenCache' = "none"
    /\ UNCHANGED <<routeCache, convertCache, routeCalls>>

\* The 86400 s of the route entry have passed: the cache no longer holds it
RouteEntryExpires ==
    /\ ClientStep
    /\ routeCache
    /\ routeCache' = FALSE
    /\ UNCHANGED <<tokenCache, convertCache, routeCalls>>

\* The 86400 s of the conversion entry have passed
ConvertEntryExpires ==
    /\ ClientStep
    /\ convertCache
    /\ convertCache' = FALSE
    /\ UNCHANGED <<tokenCache, routeCache, routeCalls>>

(***************************************************************************)
(* AD-HOC QUERY TOOL (handleQueryPropertyData, SQLExecutor.executeQuery)   *)
(*                                                                         *)
(* The text of a query is a sequence of pieces.  A piece is [text, upper,  *)
(* blank]: its characters, what toUpperCase makes of them, and whether it  *)
(* is white space.  No piece ends in the beginning of a keyword, so a      *)
(* keyword is in the text exactly when it is in one of the pieces.         *)
(***************************************************************************)
MaxPieces == 3

Piece(text, upper) == [text |-> text, upper |-> upper, blank |-> FALSE]
Blank == [text |-> " ", upper |-> " ", blank |-> TRUE]

SqlPieces ==
    {Blank,
     Piece("SELECT", "SELECT"), Piece("select", "SELECT"),
     Piece("* FROM properties", "* FROM PROPERTIES"),
     Piece("created_at", "CREATED_AT"),
     Piece("DELETE", "DELETE"), Piece("pragma", "PRAGMA"),
     Piece("limit 5", "LIMIT 5")}

\* The keywords each upper-cased piece contains
ForbiddenKeywords ==
    {"INSERT", "UPDATE", "DELETE", "DROP", "CREATE", "ALTER",
     "TRUNCATE", "REPLACE", "PRAGMA", "ATTACH", "DETACH"}
KeywordsIn(upper) ==
    CASE upper = "CREATED_AT" -> {"CREATE"}
      [] upper = "DELETE" -> {"DELETE"}
      [] upper = "PRAGMA" -> {"PRAGMA"}
      [] upper = "LIMIT 5" -> {"LIMIT"}
      [] upper = "SELECT" -> {"SELECT"}
      [] OTHER -> {}

\* sql.trim(): the text without the white space at its ends
RECURSIVE trimStart(_)
trimStart(sql) ==
    IF sql # <<>> /\ sql[1].blank THEN trimStart(Tail(sql)) ELSE sql
RECURSIVE trimEnd(_)
trimEnd(sql) ==
    IF sql # <<>> /\ sql[Len(sql)].blank
    THEN trimEnd(SubSeq(sql, 1, Len(sql) - 1)) ELSE sql
trim(sql) == trimEnd(trimStart(sql))

\* sql.toUpperCase()
toUpperCase(sql) == [k \in DOMAIN sql |-> sql[k].upper]

\* normalizedSql.startsWith('SELECT')
startsWithSelect(normalizedSql) ==
    normalizedSql # <<>> /\ normalizedSql[1] = "SELECT"

\* normalizedSql.includes(keyword)
includes(normalizedSql, keyword) ==
    \E k \in DOMAIN normalizedSql : keyword \in KeywordsIn(normalizedSql[k])

\* isSelectQuery(sql)
isSelectQuery(sql) ==
    LET normalizedSql == toUpperCase(trim(sql))
    IN /\ startsWithSelect(normalizedSql)
       /\ \A keyword \in ForbiddenKeywords : ~includes(normalizedSql, keyword)

\* sanitizeSQL(sql, limit): LIMIT is appended when the text has none
sanitizeSQL(sql) ==
    IF includes(toUpperCase(trim(sql)), "LIMIT")
    THEN trim(sql)
    ELSE Append(trim(sql), Piece("LIMIT 100", "LIMIT 100"))

\* new DatabaseManager(): the database is opened, four pragmas are set and
\* the statements of schema.sql are executed
ConstructorCalls ==
    <<[call |-> "open", sql |-> <<>>],
      [call |-> "pragma", sql |-> <<>>],
      [call |-> "exec schema", sql |-> <<>>]>>

\* What SQLite does with the statement: prepare() throws (a syntax error,
\* an unknown table), prepare() accepts it and all() throws (an integer
\* overflow, a datatype mismatch), or all() returns the rows
SqliteOutcomes == {"prepareThrows", "allThrows", "rows"}

\* executeQuery: the calls it makes and the result it returns; the catch
\* block turns an error of prepare() or of all() into the error result and
\* the finally block closes the database.
executeQuery(sql, sqlite) ==
    IF ~isSelectQuery(sql)
    THEN [calls |-> <<[call |-> "close", sql |-> <<>>]>>,
          result |-> "error: Only SELECT queries are allowed"]
    ELSE IF sqlite = "prepareThrows"
    THEN [calls |-> <<[call |-> "prepare", sql |-> sanitizeSQL(sql)],
                      [call |-> "close", sql |-> <<>>]>>,
          result |-> "error: SQLite"]
    ELSE [calls |-> <<[call |-> "prepare", sql |-> sanitizeSQL(sql)],
                      [call |-> "all", sql |-> sanitizeSQL(sql)],
                      [call |-> "close", sql |-> <<>>]>>,
          result |-> IF sqlite = "allThrows" THEN "error: SQLite" ELSE "rows"]

QueryIdle ==
    /\ sqlQuery = <<>>
    /\ dbCalls = <<>>
    /\ queryResult = "none"

InitQuery ==
    /\ sqlQuery \in SeqsUpTo(SqlPieces, MaxPieces)
    /\ dbCalls = <<>>
    /\ queryResult = "none"

\* handleQueryPropertyData(args): new SQLExecutor(), whose constructor
\* constructs the DatabaseManager, then executor.executeQuery(sql_query, ...)
HandleQueryPropertyData(sqlite) ==
    /\ QueryStep
    /\ queryResult = "none"
    /\ LET r == executeQuery(sqlQuery, sqlite)
       IN /\ dbCalls' = ConstructorCalls \o r.calls
          /\ queryResult' = r.result
    /\ UNCHANGED sqlQuery

(***************************************************************************)
(* SCHOOL CLIENT (OneMapSchoolClient.getNearbyPrimarySchools)              *)
(*                                                                         *)
(* Concurrent callers of getNearbyPrimarySchools on one client, with the   *)
(* same arguments; ensureAuthenticated and authenticate are private and    *)
(* run inside it.  The cookies are "none", "valid" (both required cookies, *)
(* more than the one-hour buffer before their expiry) or "expiring" (both  *)
(* required cookies, less than the buffer left); valid cookies become      *)
(* expiring as time passes.  The one-second timer of a waiting caller and  *)
(* the HTTP responses (timeout 30 s) come in any order.                    *)
(***************************************************************************)
MaxAuthCallers == 3

\* hasValidCookies(): both required cookies are held and each lasts more
\* than an hour from the time of the call
hasValidCookies(cookies) == cookies = "valid"

\* hasRequiredCookies()
hasRequiredCookies(cookies) == cookies # "none"

\* What the GET of the homepage ends in: Set-Cookie headers with cookies
\* that last, with cookies about to expire, no cookies, an error, or the
\* required cookies (lasting, or about to expire) followed by one that
\* decodeURIComponent rejects
AuthOutcomes ==
    {"valid", "expiring", "noCookies", "error", "malformed", "malformedExpiring"}

\* What the GET of the schools ends in: the schools, the text 'reauth',
\* or an HTTP error
RequestOutcomes == {"schools", "reauth", "s401", "s403", "s500"}

\* The message of the Error that makeAuthenticatedRequest throws
RequestError(o) ==
    CASE o = "reauth" -> "Authentication required"
      [] o = "s401" -> "Request failed: 401 Unauthorized"
      [] o = "s403" -> "Request failed: 403 Forbidden"
      [] OTHER -> "Request failed: 500 Internal Server Error"

\* The texts isAuthenticationError looks for in the lower-cased message
AuthTexts == {"reauth", "authentication", "401", "403"}

\* The texts of AuthTexts that a lower-cased message holds
AuthTextsIn(message) ==
    CASE message = "Authentication failed" -> {"authentication"}
      [] message = "Authentication required" -> {"authentication"}
      [] message = "Request failed: 401 Unauthorized" -> {"401"}
      [] message = "Request failed: 403 Forbidden" -> {"403"}
      [] OTHER -> {}

\* isAuthenticationError(error)
isAuthenticationError(message) ==
    \E text \in AuthTexts : text \in AuthTextsIn(message)

\* A caller that has not called yet; retry says that the caller is in the
\* catch block of getNearbyPrimarySchools, after clearCookies()
IdleCaller == [pc |-> "idle", retry |-> FALSE]

SchoolIdle ==
    /\ schoolCookies = "none"
    /\ schoolCache = FALSE
    /\ isAuthenticating = FALSE
    /\ authCallers = <<>>

InitSchool ==
    /\ schoolCookies = "none"
    /\ schoolCache = FALSE
    /\ isAuthenticating = FALSE
    /\ authCallers = [c \in 1..MaxAuthCallers |-> IdleCaller]

\* ensureAuthenticated() up to its first await, and past it when it returns
\* at once: with valid cookies the caller goes on to the request for the
\* schools, with the flag set it sleeps one second, and otherwise it sets
\* the flag and sends the GET of authenticate().
ensureAuthenticated(cookies, flag) ==
    IF hasValidCookies(cookies) THEN [pc |-> "requesting", flag |-> flag]
    ELSE IF flag THEN [pc |-> "waiting", flag |-> flag]
    ELSE [pc |-> "authenticating", flag |-> TRUE]

\* The catch block of getNearbyPrimarySchools for an error of the first
\* attempt: an authentication error clears the cookies and calls
\* ensureAuthenticated() again, in the promise jobs of the same turn; any
\* other error is thrown as "Failed to get nearby schools". An error of the
\* second attempt leaves the method as it is.
catchError(caller, message, cookies, flag) ==
    IF ~caller.retry /\ isAuthenticationError(message)
    THEN LET e == ensureAuthenticated("none", flag)
         IN [cookies |-> "none", flag |-> e.flag,
             caller |-> [pc |-> e.pc, retry |-> TRUE]]
    ELSE [cookies |-> cookies, flag |-> flag,
          caller |-> [caller EXCEPT !.pc = "failed"]]

\* Caller c calls getNearbyPrimarySchools: cached schools are returned at
\* once, otherwise ensureAuthenticated() is called.
GetNearbyPrimarySchools(c) ==
    /\ SchoolStep
    /\ authCallers[c].pc = "idle"
    /\ IF schoolCache
       THEN /\ authCallers' = [authCallers EXCEPT ![c].pc = "returned"]
            /\ UNCHANGED isAuthenticating
       ELSE LET e == ensureAuthenticated(schoolCookies, isAuthenticating)
            IN /\ authCallers' = [authCallers EXCEPT ![c].pc = e.pc]
               /\ isAuthenticating' = e.flag
    /\ UNCHANGED <<schoolCookies, schoolCache>>

\* The one-second timer of caller c fires: hasValidCookies() reads the
\* clock again; with valid cookies the caller goes on to the request and
\* otherwise it sets the flag and authenticates.
WaitElapsed(c) ==
    /\ SchoolStep
    /\ authCallers[c].pc = "waiting"
    /\ LET e == ensureAuthenticated(schoolCookies, FALSE)
       IN /\ authCallers' = [authCallers EXCEPT ![c].pc = e.pc]
          /\ isAuthenticating' = (isAuthenticating \/ e.flag)
    /\ UNCHANGED <<schoolCookies, schoolCache>>

\* The GET of authenticate() of caller c returns: parseCookies stores the
\* cookies sent, one by one, and authenticate throws "Authentication
\* failed" for an error, a cookie it cannot decode, or no required cookies
\* held; the finally block of ensureAuthenticated resets the flag. Then
\* the caller sends the request for the schools, or its catch block runs.
AuthenticateReturns(c, o) ==
    /\ SchoolStep
    /\ authCallers[c].pc = "authenticating"
    /\ LET stored == CASE o \in {"valid", "malformed"} -> "valid"
                       [] o \in {"expiring", "malformedExpiring"} -> "expiring"
                       [] OTHER -> schoolCookies
           thrown == \/ o \in {"error", "malformed", "malformedExpiring"}
                     \/ ~hasRequiredCookies(stored)
           r == catchError(authCallers[c], "Authentication failed", stored, FALSE)
       IN IF thrown
          THEN /\ schoolCookies' = r.cookies
               /\ isAuthenticating' = r.flag
               /\ authCallers' = [authCallers EXCEPT ![c] = r.caller]
          ELSE /\ schoolCookies' = stored
               /\ isAuthenticating' = FALSE
               /\ authCallers' = [authCallers EXCEPT ![c].pc = "requesting"]
    /\ UNCHANGED schoolCache

\* The GET of the schools of caller c returns: the schools are cached and
\* returned, or makeAuthenticatedRequest throws and the catch block runs.
RequestReturns(c, o) ==
    /\ SchoolStep
    /\ authCallers[c].pc = "requesting"
    /\ IF o = "schools"
       THEN /\ schoolCache' = TRUE
            /\ authCallers' = [authCallers EXCEPT ![c].pc = "returned"]
            /\ UNCHANGED <<schoolCookies, isAuthenticating>>
       ELSE LET r == catchError(authCallers[c], RequestError(o),
                                schoolCookies, isAuthenticating)
            IN /\ schoolCookies' = r.cookies
               /\ isAuthenticating' = r.flag
               /\ authCallers' = [authCallers EXCEPT ![c] = r.caller]
               /\ UNCHANGED schoolCache

\* Time passes: cookies that were valid have less than an hour left.
CookiesAge ==
    /\ SchoolStep
    /\ schoolCookies = "valid"
    /\ schoolCookies' = "expiring"
    /\ UNCHANGED <<schoolCache, isAuthenticating, authCallers>>

\* The cached schools reach their life time (stdTTL 3600).
SchoolEntryExpires ==
    /\ SchoolStep
    /\ schoolCache
    /\ schoolCache' = FALSE
    /\ UNCHANGED <<schoolCookies, isAuthenticating, authCallers>>

(***************************************************************************)
(* STATION FINDER (MRTFinder.findStationsWithinTime)                       *)
(*                                                                         *)
(* The part from batchCalculateRoutes on: routeResults comes to hold one    *)
(* entry per station of stationsToCheck, in their order; a station is      *)
(* its position in stationsToCheck (the names of deduplicated stations     *)
(* differ).  A route response is [itineraries, total_time]: the durations  *)
(* in seconds of plan.itineraries, and route_summary.total_time (-1: no    *)
(* route_summary).                                                         *)
(***************************************************************************)
MaxChecked == 4
SECONDS_PER_MINUTE == 60

\* Math.ceil(seconds / 60)
ceilMinutes(seconds) == (seconds + SECONDS_PER_MINUTE - 1) \div SECONDS_PER_MINUTE

\* itineraries.reduce((min, current) =>
\*     current.duration < min.duration ? current : min)
RECURSIVE fastest(_)
fastest(itineraries) ==
    IF Len(itineraries) = 1 THEN itineraries[1]
    ELSE LET min == fastest(SubSeq(itineraries, 1, Len(itineraries) - 1))
             current == itineraries[Len(itineraries)]
         IN IF current < min THEN current ELSE min

\* extractTimeData(routeResponse, mode): the totalTime, or -1 for null
extractTimeData(routeResponse, mode) ==
    IF mode = "pt"
    THEN IF Len(routeResponse.itineraries) > 0
         THEN ceilMinutes(fastest(routeResponse.itineraries))
         ELSE -1
    ELSE IF routeResponse.total_time >= 0
         THEN ceilMinutes(routeResponse.total_time)
         ELSE -1

\* if (routeResult.result && !routeResult.error)
routeSucceeded(routeResult) == routeResult.hasResult /\ ~routeResult.hasError

\* if (timeData.totalTime <= maxTimeMinutes)
withinTimeAlways(totalTime, maxTimeMinutes) == TRUE
withinTime(totalTime, maxTimeMinutes) == totalTime <= maxTimeMinutes

\* The for loop over routeResults: the results array after n entries
RECURSIVE pushedAfter(_, _)
pushedAfter(call, n) ==
    IF n = 0 THEN <<>>
    ELSE LET before == pushedAfter(call, n - 1)
             routeResult == call.routeResults[n]
             totalTime == extractTimeData(routeResult.result, call.transportMode)
         IN IF /\ routeSucceeded(routeResult)
               /\ totalTime >= 0
               /\ withinTime(totalTime, call.maxTimeMinutes)
            THEN Append(before, [station |-> routeResult.destination,
                                 totalTime |-> totalTime, withinTimeLimit |-> TRUE])
            ELSE before

\* results.sort((a, b) => a.totalTime - b.totalTime): a stable sort
RECURSIVE insertByTotalTime(_, _)
insertByTotalTime(sorted, r) ==
    IF sorted = <<>> THEN <<r>>
    ELSE IF sorted[Len(sorted)].totalTime <= r.totalTime
         THEN Append(sorted, r)
         ELSE Append(insertByTotalTime(SubSeq(sorted, 1, Len(sorted) - 1), r),
                     sorted[Len(sorted)])

RECURSIVE sortByTotalTime(_)
sortByTotalTime(list) ==
    IF list = <<>> THEN <<>>
    ELSE insertByTotalTime(sortByTotalTime(SubSeq(list, 1, Len(list) - 1)),
                           list[Len(list)])

findStationsWithinTime(call) ==
    sortByTotalTime(pushedAfter(call, Len(call.routeResults)))

\* ---- the inputs of the finder specification ----
\* Durations in seconds: one minute, just over one minute, just over 30
Durations == {60, 61, 1801}
NoRoute == [itineraries |-> <<>>, total_time |-> -1]

\* plan.itineraries: none, one, or two with the fastest first or last
Itineraries ==
    {<<>>} \cup {<<d>> : d \in Durations} \cup {<<1801, 60>>, <<61, 1801>>}

\* What the routing service can answer in a mode
RouteResponses(mode) ==
    IF mode = "pt"
    THEN {[itineraries |-> its, total_time |-> -1] : its \in Itineraries}
    ELSE {[itineraries |-> <<>>, total_time |-> t] : t \in Durations \cup {-1}}

\* The entry batchCalculateRoutes returns for destination k: a success with
\* its response, or a failure with its error
RouteEntries(k, mode) ==
    {[destination |-> k, hasResult |-> TRUE, hasError |-> FALSE, result |-> r] :
        r \in RouteResponses(mode)}
    \cup {[destination |-> k, hasResult |-> FALSE, hasError |-> TRUE, result |-> NoRoute]}

FinderCalls ==
    {[maxTimeMinutes |-> max, transportMode |-> mode, routeResults |-> <<>>] :
        mode \in {"pt", "walk"}, max \in {1, 30}}

NoFinderResult == [done |-> FALSE, results |-> <<>>]

FinderIdle ==
    /\ finderCall = [maxTimeMinutes |-> 0, transportMode |-> "pt", routeResults |-> <<>>]
    /\ finderResult = NoFinderResult

InitFinder ==
    /\ finderCall \in FinderCalls
    /\ finderResult = NoFinderResult

\* batchCalculateRoutes collects the entry of the next station of
\* stationsToCheck
RouteResultCollected(e) ==
    /\ FinderStep
    /\ ~finderResult.done
    /\ Len(finderCall.routeResults) < MaxChecked
    /\ e.destination = Len(finderCall.routeResults) + 1
    /\ finderCall' = [finderCall EXCEPT !.routeResults = Append(@, e)]
    /\ UNCHANGED finderResult

\* findStationsWithinTime from the return of batchCalculateRoutes on
ProcessRouteResults ==
    /\ FinderStep
    /\ ~finderResult.done
    /\ finderResult' = [done |-> TRUE, results |-> findStationsWithinTime(finderCall)]
    /\ UNCHANGED finderCall

(***************************************************************************)
(* Specifications                                                          *)
(***************************************************************************)
NextRouter ==
    \/ BatchInvoke
    \/ \E d \in DOMAIN calls, o \in Outcomes : RouteReturns(d, o)
    \/ \E d \in DOMAIN calls : BackoffElapsed(d)
    \/ BatchSettled
    \/ DelayElapsed

StartRouter ==
    /\ component = "router"
    /\ InitRouter
    /\ SearchIdle
    /\ DedupIdle
    /\ QuarterIdle
    /\ TrendIdle
    /\ ZoneIdle
    /\ FinderIdle
    /\ LoaderIdle
    /\ ClientIdle
    /\ QueryIdle
    /\ SchoolIdle

SpecRouter == StartRouter /\ [][NextRouter]_vars

\* The router over longer lists of destinations, each request ending in a
\* route or in a failure that is not retried: the batches, the counter and
\* the sleeps between the batches.
NextPacing ==
    \/ BatchInvoke
    \/ \E d \in DOMAIN calls, o \in PlainOutcomes : RouteReturns(d, o)
    \/ BatchSettled
    \/ DelayElapsed

StartPacing ==
    /\ component = "router"
    /\ InitPacing
    /\ SearchIdle
    /\ DedupIdle
    /\ QuarterIdle
    /\ TrendIdle
    /\ ZoneIdle
    /\ FinderIdle
    /\ LoaderIdle
    /\ ClientIdle
    /\ QueryIdle
    /\ SchoolIdle

SpecPacing == StartPacing /\ [][NextPacing]_vars

NextSearch == SearchNear

StartSearch ==
    /\ component = "search"
    /\ InitSearch
    /\ RouterIdle
    /\ DedupIdle
    /\ QuarterIdle
    /\ TrendIdle
    /\ ZoneIdle
    /\ FinderIdle
    /\ LoaderIdle
    /\ ClientIdle
    /\ QueryIdle
    /\ SchoolIdle

SpecSearch == StartSearch /\ [][NextSearch]_vars

NextMulti == SearchNearMultiple

StartMulti ==
    /\ component = "multi"
    /\ InitMulti
    /\ RouterIdle
    /\ DedupIdle
    /\ QuarterIdle
    /\ TrendIdle
    /\ ZoneIdle
    /\ FinderIdle
    /\ LoaderIdle
    /\ ClientIdle
    /\ QueryIdle
    /\ SchoolIdle

SpecMulti == StartMulti /\ [][NextMulti]_vars

NextDedup == Deduplicate

StartDedup ==
    /\ component = "dedup"
    /\ InitDedup
    /\ RouterIdle
    /\ SearchIdle
    /\ QuarterIdle
    /\ TrendIdle
    /\ ZoneIdle
    /\ FinderIdle
    /\ LoaderIdle
    /\ ClientIdle
    /\ QueryIdle
    /\ SchoolIdle

SpecDedup == StartDedup /\ [][NextDedup]_vars

NextQuarter == ParseToQuarter

StartQuarter ==
    /\ component = "quarter"
    /\ InitQuarter
    /\ RouterIdle
    /\ SearchIdle
    /\ DedupIdle
    /\ TrendIdle
    /\ ZoneIdle
    /\ FinderIdle
    /\ LoaderIdle
    /\ ClientIdle
    /\ QueryIdle
    /\ SchoolIdle

SpecQuarter == StartQuarter /\ [][NextQuarter]_vars

NextTrend == EnrichPropertyData

StartTrend ==
    /\ component = "trend"
    /\ InitTrend
    /\ RouterIdle
    /\ SearchIdle
    /\ DedupIdle
    /\ QuarterIdle
    /\ ZoneIdle
    /\ FinderIdle
    /\ LoaderIdle
    /\ ClientIdle
    /\ QueryIdle
    /\ SchoolIdle

SpecTrend == StartTrend /\ [][NextTrend]_vars

NextLong ==
    \/ \E c \in InitCallers, args \in InitArgs : HandleInitPropertyDatabase(c, args)
    \/ \E c \in InitCallers, feed \in TransactionFeeds : TransactionFeedArrives(c, feed)
    \/ \E c \in InitCallers, feed \in RentalFeeds : RentalFeedArrives(c, feed)
    \/ EnrichPropertyData

StartLong ==
    /\ component = "trend"
    /\ InitLong
    /\ RouterIdle
    /\ SearchIdle
    /\ DedupIdle
    /\ QuarterIdle
    /\ ZoneIdle
    /\ FinderIdle
    /\ LoaderIdle
    /\ ClientIdle
    /\ QueryIdle
    /\ SchoolIdle

SpecLong == StartLong /\ [][NextLong]_vars

NextZones ==
    \/ \E tool \in ZoneTools : HandleZoneTool(tool)
    \/ \E h \in DOMAIN zoneHandler : GetPlanningZoneAnalysis(h)
    \/ \E h \in DOMAIN zoneHandler : ZoneHandlerReturns(h)

StartZones ==
    /\ component = "zones"
    /\ InitZones
    /\ RouterIdle
    /\ SearchIdle
    /\ DedupIdle
    /\ QuarterIdle
    /\ TrendIdle
    /\ FinderIdle
    /\ LoaderIdle
    /\ ClientIdle
    /\ QueryIdle
    /\ SchoolIdle

SpecZones == StartZones /\ [][NextZones]_vars

NextFinder ==
    \/ \E e \in RouteEntries(Len(finderCall.routeResults) + 1, finderCall.transportMode) :
          RouteResultCollected(e)
    \/ ProcessRouteResults

StartFinder ==
    /\ component = "finder"
    /\ InitFinder
    /\ RouterIdle
    /\ SearchIdle
    /\ DedupIdle
    /\ QuarterIdle
    /\ TrendIdle
    /\ ZoneIdle
    /\ LoaderIdle
    /\ ClientIdle
    /\ QueryIdle
    /\ SchoolIdle

SpecFinder == StartFinder /\ [][NextFinder]_vars

NextLoader ==
    \/ \E c \in DOMAIN callers, method \in ClientMethods : CallClientMethod(c, method)
    \/ \E c \in DOMAIN callers : LoadDataSettles(c)
    \/ DataFileChanges

StartLoader ==
    /\ component = "loader"
    /\ InitLoader
    /\ RouterIdle
    /\ SearchIdle
    /\ DedupIdle
    /\ QuarterIdle
    /\ TrendIdle
    /\ ZoneIdle
    /\ FinderIdle
    /\ ClientIdle
    /\ QueryIdle
    /\ SchoolIdle

SpecLoader == StartLoader /\ [][NextLoader]_vars

NextClient ==
    \/ \E c \in DOMAIN routeCalls : CalculateRoute(c)
    \/ \E c \in DOMAIN routeCalls, o \in TokenOutcomes : TokenPostReturns(c, o)
    \/ \E c \in DOMAIN routeCalls : ConvertWGS84ToSVY21(c)
    \/ \E c \in DOMAIN routeCalls, o \in RouteOutcomes : RouteGetReturns(c, o)
    \/ \E c \in DOMAIN routeCalls, o \in ConvertOutcomes : ConvertGetReturns(c, o)
    \/ TokenEntryExpires
    \/ RouteEntryExpires
    \/ ConvertEntryExpires

StartClient ==
    /\ component = "client"
    /\ InitClient
    /\ RouterIdle
    /\ SearchIdle
    /\ DedupIdle
    /\ QuarterIdle
    /\ TrendIdle
    /\ ZoneIdle
    /\ FinderIdle
    /\ LoaderIdle
    /\ QueryIdle
    /\ SchoolIdle

SpecClient == StartClient /\ [][NextClient]_vars

NextQuery == \E sqlite \in SqliteOutcomes : HandleQueryPropertyData(sqlite)

StartQuery ==
    /\ component = "query"
    /\ InitQuery
    /\ RouterIdle
    /\ SearchIdle
    /\ DedupIdle
    /\ QuarterIdle
    /\ TrendIdle
    /\ ZoneIdle
    /\ FinderIdle
    /\ LoaderIdle
    /\ ClientIdle
    /\ SchoolIdle

SpecQuery == StartQuery /\ [][NextQuery]_vars

NextSchool ==
    \/ \E c \in DOMAIN authCallers : GetNearbyPrimarySchools(c)
    \/ \E c \in DOMAIN authCallers : WaitElapsed(c)
    \/ \E c \in DOMAIN authCallers, o \in AuthOutcomes : AuthenticateReturns(c, o)
    \/ \E c \in DOMAIN authCallers, o \in RequestOutcomes : RequestReturns(c, o)
    \/ CookiesAge
    \/ SchoolEntryExpires

StartSchool ==
    /\ component = "school"
    /\ InitSchool
    /\ RouterIdle
    /\ SearchIdle
    /\ DedupIdle
    /\ QuarterIdle
    /\ TrendIdle
    /\ ZoneIdle
    /\ FinderIdle
    /\ LoaderIdle
    /\ ClientIdle
    /\ QueryIdle

SpecSchool == StartSchool /\ [][NextSchool]_vars

\* The whole program: any one component exercised
Init ==
    \/ StartRouter
    \/ StartSearch
    \/ StartMulti
    \/ StartDedup
    \/ StartQuarter
    \/ StartTrend
    \/ StartLong
    \/ StartZones
    \/ StartFinder
    \/ StartLoader
    \/ StartClient
    \/ StartQuery
    \/ StartSchool

Next ==
    \/ NextRouter
    \/ NextSearch
    \/ NextMulti
    \/ NextDedup
    \/ NextQuarter
    \/ NextTrend
    \/ NextLong
    \/ NextZones
    \/ NextFinder
    \/ NextLoader
    \/ NextClient
    \/ NextQuery
    \/ NextSchool

Spec == Init /\ [][Next]_vars

(***************************************************************************)
(* Claims about the adaptive batch router                                  *)
(***************************************************************************)
IsSuccess(e) == e.result # "null" /\ ~e.error.defined
IsFailure(e) == e.result = "null" /\ e.error.defined /\ e.error.text # ""
BatchNo(d) == (d - 1) \div BATCH_SIZE
Active(d) == calls[d].pc \in {"inflight", "backoff"}
Last(s) == s[Len(s)]

\* C1: batchCalculateRoutes always returns (it is never stuck before its
\* return and has no failing exit), and the list it returns has exactly one
\* entry per destination, in destination order, each entry either a success
\* (result set, no error) or a failure carrying its cause (result null,
\* error message set).
C1_OneOutcomePerDestination ==
    /\ rpc \in {"idle", "running", "sleeping"} => ENABLED NextRouter
    /\ rpc = "done" =>
         /\ Len(results) = destinations
         /\ \A k \in 1..Len(results) :
              /\ results[k].destination = k
              /\ IsSuccess(results[k]) \/ IsFailure(results[k])
              /\ ~(IsSuccess(results[k]) /\ IsFailure(results[k]))

C1_Witness ==
    /\ rpc = "done"
    /\ destinations > BATCH_SIZE
    /\ \E k \in 1..Len(results) : IsSuccess(results[k])
    /\ \E k \in 1..Len(results) : IsFailure(results[k])

\* C6 (as claimed): a destination whose every request failed with a
\* RateLimited (429) or ServerError (5xx) response is reported as failed only
\* after 2 retries following its initial attempt, with waits of 1000 ms and
\* then 2000 ms between the attempts.
C6_TwoRetriesClaimed ==
    \A d \in DOMAIN calls :
        (/\ calls[d].pc = "resolved"
         /\ \A k \in 1..Len(calls[d].outcomes) :
              StatusOf(calls[d].outcomes[k]) \in {429} \cup (500..599))
        => /\ calls[d].attempt = 3
           /\ calls[d].waits = <<1000, 2000>>

\* An outcome classified as RateLimited (429) or ServerError (5xx)
ClassifiedTransient(o) == StatusOf(o) \in {429} \cup (500..599)

\* A request that fails with an outcome other than those of Exempt ends its
\* destination at once: it is the last attempt, no backoff sleep follows it,
\* and the destination is reported as failed with that error; a first
\* request failing this way means exactly one attempt.  Every destination's
\* entry is decided by its own last request only.
FailsAtOnceUnless(Exempt(_)) ==
    \A d \in DOMAIN calls :
        LET c == calls[d] IN
        /\ \A k \in 1..Len(c.outcomes) :
             (c.outcomes[k] # "ok" /\ ~Exempt(c.outcomes[k]))
             => /\ k = Len(c.outcomes)
                /\ c.pc = "resolved"
                /\ c.attempt = k
                /\ Len(c.waits) = k - 1
                /\ IsFailure(c.entry)
                /\ k = 1 => c.waits = <<>>
        /\ c.pc = "resolved" =>
             /\ c.entry.destination = d
             /\ IsSuccess(c.entry) <=> Last(c.outcomes) = "ok"

\* C7 (as claimed): a request that fails with an error that is neither
\* RateLimited (429) nor ServerError (5xx) is the only attempt of its
\* destination: it is rethrown at once, with no retry and no backoff sleep,
\* and the other destinations of the batch are unaffected.
C7_NonRetryableFailsAtOnce == FailsAtOnceUnless(ClassifiedTransient)

\* The outcomes whose error message holds one of the texts the retry tests
RetriedByText(o) == o # "ok" /\ isRetryable(RouteError(o))

\* Where the message of the error holds none of the texts, C7 is as claimed
FailsAtOnceUnlessTextMatches ==
    FailsAtOnceUnless(LAMBDA o : ClassifiedTransient(o) \/ RetriedByText(o))

\* A response of status 400 whose message quotes a code of the list, tried
\* again after a sleep
QuotedCodeRetried ==
    \E d \in DOMAIN calls :
        /\ Len(calls[d].outcomes) >= 2
        /\ calls[d].outcomes[1] = "s400quoted"
        /\ calls[d].waits # <<>>

\* C8: at most 3 routing calls are in flight at any time, and a call of a
\* later batch is started only after every call of every earlier batch has
\* completed (retries included) and the inter-batch delay that follows the
\* earlier batch has elapsed.
C8_BatchesDoNotOverlap ==
    /\ Cardinality({d \in DOMAIN calls : Active(d)}) <= BATCH_SIZE
    /\ \A d \in DOMAIN calls :
         calls[d].pc # "idle" =>
            /\ \A e \in DOMAIN calls :
                 BatchNo(e) < BatchNo(d) => calls[e].pc = "settled"
            /\ Len(results) >= BATCH_SIZE * BatchNo(d)
            /\ Len(delays) >= BatchNo(d)
            /\ rpc = "sleeping" => Len(delays) > BatchNo(d)
    /\ rpc = "sleeping" => \A d \in DOMAIN calls : ~Active(d)

C8_Witness ==
    /\ rpc = "running"
    /\ Len(delays) = 1
    /\ Cardinality({d \in DOMAIN calls : Active(d)}) >= 1
    /\ \E d \in DOMAIN calls : BatchNo(d) = 1 /\ Len(calls[d].waits) = 1

(***************************************************************************)
(* Claims about the radius search                                          *)
(***************************************************************************)
ResultIds(resp) == {resp.results[k].id : k \in DOMAIN resp.results}
ReqRadius == request.options.maxDistanceMeters

\* In the square of side 2r around the center, by coordinates
InSquare(p, center, r) ==
    /\ center.x - r <= p.x /\ p.x <= center.x + r
    /\ center.y - r <= p.y /\ p.y <= center.y + r

\* C2: every property searchPropertiesNear returns lies within the radius
\* of the center (and is reported with its true distance); a property
\* farther away is never returned, also when it lies in the search square.
C2_ResultsWithinRadius ==
    request.op = "near" =>
        \A k \in DOMAIN response.results :
            LET row == response.results[k] IN
            /\ row.id \in DOMAIN db
            /\ row.distance2 = Dist2(db[row.id], request.center)
            /\ row.distance2 <= ReqRadius * ReqRadius

\* A search that returned something while a property sat in a corner of the
\* square, outside the disk.
C2_Witness ==
    /\ request.op = "near"
    /\ response.results # <<>>
    /\ \E id \in DOMAIN db :
         /\ InSquare(db[id], request.center, ReqRadius)
         /\ Dist2(db[id], request.center) > ReqRadius * ReqRadius
         /\ id \notin ResultIds(response)

\* The properties a search must find: within the radius, of a requested
\* market segment and district, and, when a transaction filter is supplied
\* (a price bound, a date bound, a year bound, or a list of types, even an
\* empty one), having a transaction that meets all of its bounds.  A date
\* bound is read here as the order of the MMYY strings; whether that order
\* is the calendar's is the subject of C20.
BruteForce(table, center, o) ==
    {id \in DOMAIN table :
        LET p == table[id] IN
        /\ Dist2(p, center) <= o.maxDistanceMeters * o.maxDistanceMeters
        /\ o.marketSegments.vals # {} => p.market_segment \in o.marketSegments.vals
        /\ o.districts.vals # {} => p.district \in o.districts.vals
        /\ (o.minPrice # 0 \/ o.propertyTypes.given
                \/ o.fromDate.given \/ o.toDate.given)
              => \E k \in DOMAIN p.txs :
                    /\ p.txs[k].price >= o.minPrice
                    /\ o.propertyTypes.vals # {}
                          => p.txs[k].property_type \in o.propertyTypes.vals
                    /\ o.fromDate.given
                          => DateLeq(o.fromDate, p.txs[k].contract_date)
                    /\ o.toDate.given
                          => DateLeq(p.txs[k].contract_date, o.toDate)}

\* C9: when no more properties match than the limit allows, the search
\* returns exactly the brute-force set, each property once: the bounding
\* square drops no property of the disk.
C9_AllMatchesReturned ==
    request.op = "near" =>
        LET want == BruteForce(db, request.center, request.options) IN
        Cardinality(want) <= request.options.limit =>
            /\ ResultIds(response) = want
            /\ Len(response.results) = Cardinality(want)
            /\ ~response.truncated

\* A search whose disk holds properties on both sides of the center's
\* coordinates, all of them returned.
C9_Witness ==
    /\ request.op = "near"
    /\ Len(response.results) >= 2
    /\ ~response.truncated
    /\ \E a, b \in ResultIds(response) :
         /\ db[a].x < request.center.x
         /\ db[b].y < request.center.y

\* C10 (as claimed): results come in ascending distance, and results at the
\* same distance in ascending property identifier.
C10_TieBreakByIdClaimed ==
    request.op = "near" =>
        \A a, b \in DOMAIN response.results :
            a < b =>
                \/ response.results[a].distance2 < response.results[b].distance2
                \/ /\ response.results[a].distance2 = response.results[b].distance2
                   /\ response.results[a].id < response.results[b].id

\* C10 (amended): results come in ascending distance from the center (the
\* order of results at the same distance is the database's).
C10_AscendingDistance ==
    request.op = "near" =>
        \A a, b \in DOMAIN response.results :
            a < b => response.results[a].distance2 <= response.results[b].distance2

C10_Witness ==
    /\ request.op = "near"
    /\ Len(response.results) >= 2
    /\ response.results[1].distance2 < response.results[2].distance2
    /\ response.results[1].id > response.results[2].id

\* C11: searchPropertiesNear returns at most limit results; truncated is
\* true exactly when more than limit properties match the query; when not
\* truncated, totalAvailable is the number of results returned.
C11_TruncatedIffMoreThanLimit ==
    request.op = "near" =>
        LET want == BruteForce(db, request.center, request.options) IN
        /\ Len(response.results) <= request.options.limit
        /\ response.truncated <=> Cardinality(want) > request.options.limit
        /\ ~response.truncated => response.totalAvailable = Len(response.results)
        /\ response.truncated => Len(response.results) = request.options.limit

\* A truncated search: more properties match than the limit
C11_Witness ==
    /\ request.op = "near"
    /\ response.truncated
    /\ Len(response.results) = request.options.limit
    /\ Cardinality(BruteForce(db, request.center, request.options)) > request.options.limit

(***************************************************************************)
(* Claims about the multi-center search                                    *)
(***************************************************************************)
\* The centers whose disk (of the radius in effect) contains the property
Containing(p, centers) ==
    {k \in DOMAIN centers :
        Dist2(p, centers[k]) <= EffectiveRadius(centers[k]) * EffectiveRadius(centers[k])}

\* C3: every property searchPropertiesNearMultiple returns appears once, and
\* the center it is reported under is one of the centers whose disk
\* contains it, at the least distance among those centers.
C3_NearestCenterOnce ==
    request.op = "multi" =>
        /\ \A a, b \in DOMAIN response.results :
             a # b => response.results[a].id # response.results[b].id
        /\ \A a \in DOMAIN response.results :
             LET row == response.results[a]
                 p == db[row.id]
                 inDisk == Containing(p, request.centers)
             IN \E k \in inDisk :
                  /\ request.centers[k].name = row.search_center
                  /\ Dist2(p, request.centers[k]) = row.distance2
                  /\ \A j \in inDisk : Dist2(p, request.centers[j]) >= row.distance2

\* A returned property that lies in the disks of two centers, at different
\* distances.
C3_Witness ==
    /\ request.op = "multi"
    /\ \E a \in DOMAIN response.results :
         LET p == db[response.results[a].id]
         IN \E j, k \in Containing(p, request.centers) :
              Dist2(p, request.centers[j]) < Dist2(p, request.centers[k])

\* The position in the list of the center a property is to be assigned to:
\* of the centers whose disk contains it, those at the least distance, and
\* of these the earliest in the list.
NearestOf(p, centers) ==
    {k \in Containing(p, centers) :
        \A j \in Containing(p, centers) : Dist2(p, centers[k]) <= Dist2(p, centers[j])}
EarliestNearest(p, centers) ==
    CHOOSE k \in NearestOf(p, centers) : \A j \in NearestOf(p, centers) : k <= j

C13_GroupsInInputOrderClaimed ==
    request.op = "multi" =>
        \A a, b \in DOMAIN response.results :
            a < b =>
                LET ka == EarliestNearest(db[response.results[a].id], request.centers)
                    kb == EarliestNearest(db[response.results[b].id], request.centers)
                IN \/ ka < kb
                   \/ /\ ka = kb
                      /\ response.results[a].distance2 <= response.results[b].distance2

\* C13 (amended): the results are grouped by assigned center, the groups in
\* ascending order of the center's name, each group in ascending distance.
C13_GroupsInNameOrder ==
    request.op = "multi" =>
        \A a, b \in DOMAIN response.results :
            a < b =>
                \/ response.results[a].search_center < response.results[b].search_center
                \/ /\ response.results[a].search_center = response.results[b].search_center
                   /\ response.results[a].distance2 <= response.results[b].distance2

\* Two groups returned in the order of their names while the list of
\* centers has them the other way round
C13_Witness ==
    /\ request.op = "multi"
    /\ Len(response.results) >= 2
    /\ response.results[1].search_center < response.results[2].search_center
    /\ EarliestNearest(db[response.results[1].id], request.centers)
         > EarliestNearest(db[response.results[2].id], request.centers)

\* The properties searchPropertiesNear finds around one center of the list,
\* with the center's radius and the same filters
SingleSearchIds(table, center, o) ==
    {r.id : r \in SelectRows(table, center,
                             [o EXCEPT !.maxDistanceMeters = EffectiveRadius(center)])}

\* C14: when the limit does not truncate, searchPropertiesNearMultiple
\* returns exactly the properties that searchPropertiesNear returns for one
\* center or another of the list with the same filters.
C14_UnionOfSingleSearches ==
    (request.op = "multi" /\ ~response.truncated) =>
        ResultIds(response) =
            UNION {SingleSearchIds(db, request.centers[k], request.options) :
                      k \in DOMAIN request.centers}

(***************************************************************************)
(* Claims about the station deduplication                                  *)
(***************************************************************************)
\* C4: deduplicateStations returns one station per base name of the input:
\* no two outputs share a base name, every base name of the input is
\* represented, every output is an input record, and the output is in
\* ascending distance.
C4_OnePerBaseNameSorted ==
    dedupDone =>
        /\ \A a, b \in DOMAIN deduped :
             a # b => extractBaseName(deduped[a].name) # extractBaseName(deduped[b].name)
        /\ {extractBaseName(deduped[a].name) : a \in DOMAIN deduped}
             = {extractBaseName(stations[k].name) : k \in DOMAIN stations}
        /\ \A a \in DOMAIN deduped : \E k \in DOMAIN stations : stations[k] = deduped[a]
        /\ \A a, b \in DOMAIN deduped : a < b => deduped[a].distance <= deduped[b].distance

\* Two stations of one base name and one of another, the far group first
C4_Witness ==
    /\ dedupDone
    /\ Len(stations) = 3
    /\ Len(deduped) = 2
    /\ extractBaseName(stations[1].name) = extractBaseName(deduped[2].name)
    /\ deduped[1].distance < deduped[2].distance

\* The priority the claim gives each form of name: 1 bare name, 2 line
\* code, 3 EXIT A, 4 another exit, 5 anything else.
ClaimedPriority(name) ==
    CASE name = <<"KENT", "MRT", "STATION">> -> 1
      [] name = <<"BUONA", "MRT", "STATION">> -> 1
      [] name = <<"KENT", "MRT", "STATION", "(CC24)">> -> 2
      [] name = <<"KENT", "(CC24)">> -> 2
      [] name = <<"KENT", "MRT", "STATION", "EXIT", "A">> -> 3
      [] name = <<"KENT", "EXIT", "A">> -> 3
      [] name = <<"KENT", "MRT", "STATION", "EXIT", "B">> -> 4
      [] OTHER -> 5

FixtureStations ==
    {[name |-> <<"KENT", "MRT", "STATION", "EXIT", "A">>, distance |-> 20],
     [name |-> <<"KENT", "MRT", "STATION", "(CC24)">>, distance |-> 5],
     [name |-> <<"KENT", "MRT", "STATION", "EXIT", "B">>, distance |-> 30]}

\* C5: in whatever order a group's stations are given, the group's
\* representative has the lowest priority number of the group and, among
\* the group's stations of that priority, the least distance; the fixture
\* {EXIT A at 0.2, (CC24) at 0.05, EXIT B at 0.3} gives the (CC24) entry.
C5_BestPriorityThenNearest ==
    dedupDone =>
        /\ \A a \in DOMAIN deduped : \A k \in DOMAIN stations :
             extractBaseName(stations[k].name) = extractBaseName(deduped[a].name)
             => \/ ClaimedPriority(deduped[a].name) < ClaimedPriority(stations[k].name)
                \/ /\ ClaimedPriority(deduped[a].name) = ClaimedPriority(stations[k].name)
                   /\ deduped[a].distance <= stations[k].distance
        /\ (Len(stations) = 3 /\ Range(stations) = FixtureStations)
             => deduped = <<[name |-> <<"KENT", "MRT", "STATION", "(CC24)">>,
                             distance |-> 5]>>

\* The fixture given with the (CC24) entry last
C5_Witness ==
    /\ dedupDone
    /\ Len(stations) = 3
    /\ Range(stations) = FixtureStations
    /\ stations[3].distance = 5
    /\ Len(deduped) = 1

(***************************************************************************)
(* Claims about the quarter decoding                                       *)
(***************************************************************************)
\* The smallest q with 3 q >= n: the ceiling of n / 3
CeilThird(n) == CHOOSE q \in 0..n : 3 * q >= n /\ 3 * (q - 1) < n

\* C15: for every month 01..12 and year 00..99, parseToQuarter takes the
\* quarter ceil(MM/3), the full year 2000+Y for Y < 50 and 1900+Y otherwise,
\* and labels the bucket Q<quarter>'<YY>; "0125" gives Q1'25 and "1224"
\* gives Q4'24.
C15_QuarterAndYearDecoded ==
    (parsed.done /\ 10 * mmyyDate[1] + mmyyDate[2] \in 1..12) =>
        LET mm == 10 * mmyyDate[1] + mmyyDate[2]
            yy == 10 * mmyyDate[3] + mmyyDate[4]
        IN /\ parsed.label.quarter = CeilThird(mm)
           /\ yy < 50 => parsed.fullYear = 2000 + yy
           /\ yy >= 50 => parsed.fullYear = 1900 + yy
           /\ parsed.label.suffix = <<mmyyDate[3], mmyyDate[4]>>
           /\ mmyyDate = <<0, 1, 2, 5>>
                 => parsed.label = [quarter |-> 1, suffix |-> <<2, 5>>]
           /\ mmyyDate = <<1, 2, 2, 4>>
                 => parsed.label = [quarter |-> 4, suffix |-> <<2, 4>>]

\* "1224" decoded
C15_Witness ==
    /\ parsed.done
    /\ mmyyDate = <<1, 2, 2, 4>>
    /\ parsed.label.quarter = 4

\* C16 (as claimed): the input "4900" decodes to year 2049 and the input
\* "5000" to year 1950.
C16_BoundaryInputsClaimed ==
    parsed.done =>
        /\ mmyyDate = <<4, 9, 0, 0>> => parsed.fullYear = 2049
        /\ mmyyDate = <<5, 0, 0, 0>> => parsed.fullYear = 1950

\* C16 (amended): the year digits are the last two: "0149" decodes to year
\* 2049 and "0150" to year 1950, while "4900" and "5000" decode to year
\* 2000 (their first two digits are read as the month).
C16_BoundaryYears ==
    parsed.done =>
        /\ mmyyDate = <<0, 1, 4, 9>> => parsed.fullYear = 2049
        /\ mmyyDate = <<0, 1, 5, 0>> => parsed.fullYear = 1950
        /\ mmyyDate \in {<<4, 9, 0, 0>>, <<5, 0, 0, 0>>} => parsed.fullYear = 2000

\* "0150" decoded
C16_Witness ==
    /\ parsed.done
    /\ mmyyDate = <<0, 1, 5, 0>>
    /\ parsed.year = 50

(***************************************************************************)
(* Claims about the enrichment and the price trend                         *)
(***************************************************************************)
\* Positive price and area, and a unit price within [200, 10000] $/sqf
UnitPriceInRange(t) ==
    /\ t.price > 0 /\ t.area > 0
    /\ 1000 * t.price >= 200 * 10764 * t.area
    /\ 1000 * t.price <= 10000 * 10764 * t.area

RECURSIVE SumOfCounts(_)
SumOfCounts(trend) ==
    IF trend = <<>> THEN 0 ELSE Head(trend).transactionCount + SumOfCounts(Tail(trend))

\* The months of a quarter label, as the month numbers of the dates
InQuarter(t, label) ==
    /\ 10 * t.contract_date[1] + t.contract_date[2] \in
          (3 * label.quarter - 2)..(3 * label.quarter)
    /\ <<t.contract_date[3], t.contract_date[4]>> = label.suffix

\* C17: a transaction whose unit price is below 200 or above 10000 is in no
\* quarter bucket of the trend (not in a count, not in an average) and is
\* still among recentTransactions; the bucket counts add up to the number of
\* transactions of positive price and area with a unit price in
\* [200, 10000]; every call returns.
C17_OutliersLeftOutOfTrend ==
    enriched.done =>
        LET recent == enriched.recentTransactions
            trend == enriched.pricePerSqfTrend
            counted == {k \in DOMAIN recent : UnitPriceInRange(recent[k])}
        IN /\ Len(history) <= 10 =>
                \A k \in DOMAIN history :
                    \E j \in DOMAIN recent :
                        /\ recent[j].id = k
                        /\ recent[j].price = history[k].price
                        /\ recent[j].area = history[k].area
           /\ SumOfCounts(trend) = Cardinality(counted)
           /\ \A a, b \in DOMAIN trend : a # b => trend[a].quarter # trend[b].quarter
           /\ \A a \in DOMAIN trend :
                LET members == {k \in counted : InQuarter(recent[k], trend[a].quarter)}
                IN /\ trend[a].transactionCount = Cardinality(members)
                   /\ members # {}
                   /\ \E k \in members :
                         (2 * trend[a].avgPricePerSqf + 1) * 10764 * recent[k].area
                            >= 2 * 1000 * recent[k].price
                   /\ \E k \in members :
                         (2 * trend[a].avgPricePerSqf - 1) * 10764 * recent[k].area
                            <= 2 * 1000 * recent[k].price

\* A sale at exactly 10,000 $/sqf
AtUpperBound(t) ==
    t.price > 0 /\ t.area > 0 /\ 1000 * t.price = 10000 * 10764 * t.area

\* Where no sale at exactly 10,000 $/sqf has an area whose quotient the
\* double arithmetic puts above 10000, the trend is as C17 says.
OutliersLeftOutAwayFromBound ==
    (\A k \in DOMAIN history :
        ~(AtUpperBound(history[k]) /\ history[k].area \in AreasAboveAtMax))
        => C17_OutliersLeftOutOfTrend

\* A property with a sale at exactly 10,000 $/sqf that is in no bucket
SaleAtBoundSkipped ==
    /\ enriched.done
    /\ \E k \in DOMAIN history : AtUpperBound(history[k])
    /\ enriched.pricePerSqfTrend = <<>>

(***************************************************************************)
(* Claims about the planning zones                                         *)
(***************************************************************************)
\* C18: across any sequence of zone queries the process serves, the polygon
\* dataset is read and parsed at most once.
C18_DatasetReadAtMostOnce == fileReads <= 1

(***************************************************************************)
(* Claims about the station finder                                         *)
(***************************************************************************)
\* The travel time in whole minutes a successful routing call reports: the
\* least number of minutes that covers its shortest duration; -1 if none
MinutesOf(entry, mode) ==
    LET secs == IF mode = "pt" THEN Range(entry.result.itineraries)
                ELSE {entry.result.total_time} \ {-1}
    IN IF secs = {} THEN -1
       ELSE LET least == CHOOSE d \in secs : \A e \in secs : d <= e
            IN CHOOSE mins \in (least \div 60)..(least \div 60 + 1) :
                    60 * mins >= least /\ 60 * (mins - 1) < least

\* C19: every entry findStationsWithinTime returns is a destination whose
\* routing call succeeded with a total travel time <= maxTimeMinutes; a
\* destination that failed or exceeds the limit does not appear; the list
\* is in ascending total travel time.
C19_SucceededWithinTimeSorted ==
    finderResult.done =>
        LET out == finderResult.results
            rr == finderCall.routeResults
        IN /\ \A a \in DOMAIN out :
                /\ out[a].station \in DOMAIN rr
                /\ rr[out[a].station].hasResult
                /\ ~rr[out[a].station].hasError
                /\ out[a].totalTime = MinutesOf(rr[out[a].station], finderCall.transportMode)
                /\ out[a].totalTime >= 0
                /\ out[a].totalTime <= finderCall.maxTimeMinutes
           /\ \A k \in DOMAIN rr :
                (rr[k].hasError
                    \/ MinutesOf(rr[k], finderCall.transportMode) > finderCall.maxTimeMinutes)
                    => \A a \in DOMAIN out : out[a].station # k
           /\ \A a, b \in DOMAIN out : a < b => out[a].totalTime <= out[b].totalTime

\* A call with a failed destination, one over the limit, and two within
\* it that come back in another order than they were routed
C19_Witness ==
    /\ finderResult.done
    /\ \E k \in DOMAIN finderCall.routeResults : finderCall.routeResults[k].hasError
    /\ \E k \in DOMAIN finderCall.routeResults :
         MinutesOf(finderCall.routeResults[k], finderCall.transportMode)
            > finderCall.maxTimeMinutes
    /\ Len(finderResult.results) = 2
    /\ finderResult.results[1].station > finderResult.results[2].station

\* The month of the calendar an MMYY date names, counted from year 0; the
\* two-digit year is read with the pivot of parseToQuarter.
MonthOfCalendar(d) == 12 * fullYearOf(d.yy) + d.mm

\* The date lies in the calendar range of the request's bounds
InCalendarRange(d, o) ==
    /\ o.fromDate.given => MonthOfCalendar(o.fromDate) <= MonthOfCalendar(d)
    /\ o.toDate.given => MonthOfCalendar(d) <= MonthOfCalendar(o.toDate)

\* C20 (as claimed): with from_date and/or to_date given, every property a
\* search returns has a transaction whose contract month is, in the
\* calendar, on or after from_date and on or before to_date.
C20_DateRangeIsChronological ==
    (/\ request.op = "near"
     /\ request.options.fromDate.given \/ request.options.toDate.given) =>
        \A id \in ResultIds(response) :
            \E k \in DOMAIN db[id].txs :
                InCalendarRange(db[id].txs[k].contract_date, request.options)

\* The batches whose entries have been pushed, the entries of batch k, and
\* the failures among them
SettledBatches == (Len(results) + BATCH_SIZE - 1) \div BATCH_SIZE
EntriesOf(k) == (BATCH_SIZE * (k - 1) + 1)..Min(BATCH_SIZE * k, Len(results))
FailuresIn(k) == Cardinality({j \in EntriesOf(k) : results[j].result = "null"})

\* The counter as the claim updates it, after k batches
RECURSIVE CounterAfter(_)
CounterAfter(k) ==
    IF k = 0 THEN 0
    ELSE IF 2 * FailuresIn(k) > Cardinality(EntriesOf(k))
         THEN CounterAfter(k - 1) + 1
         ELSE IF CounterAfter(k - 1) > 0 THEN CounterAfter(k - 1) - 1 ELSE 0

\* C21: after every batch the counter is the claimed one (+1 when more than
\* half of the batch failed, otherwise one less but never below 0); one sleep
\* is made after every batch except the last, none after the last; the
\* sleep after batch k is min(10000, 2000 * (1 + 2 * rate) * (1 + counter / 2))
\* ms (here times 3, a batch that is not the last having 3 entries), and more
\* than 2000 ms when the batch had a failure.
C21_AdaptiveDelayBetweenBatches ==
    /\ consecutiveErrors = CounterAfter(SettledBatches)
    /\ consecutiveErrors >= 0
    /\ Len(delays) =
         Cardinality({k \in 1..SettledBatches : BATCH_SIZE * k < destinations})
    /\ \A k \in DOMAIN delays :
         /\ delays[k] =
              Min(3 * 10000, 1000 * (3 + 2 * FailuresIn(k)) * (2 + CounterAfter(k)))
         /\ FailuresIn(k) >= 1 => delays[k] > 3 * 2000

\* A run of three batches that is over: the second sleep hit the cap, the
\* first followed a batch with a failure and stayed under it, and the counter
\* went down again after the last batch.
C21_Witness ==
    /\ rpc = "done"
    /\ Len(delays) = 2
    /\ delays[2] = 3 * 10000
    /\ FailuresIn(1) >= 1
    /\ delays[1] < 3 * 10000
    /\ consecutiveErrors < CounterAfter(2)

(***************************************************************************)
(* Claims about the concurrent callers of one PlanningZoneClient           *)
(***************************************************************************)
\* C22: on one client, whatever the order in which callers call loadData and
\* resume, _loadDataInternal runs at most once; every caller gets the
\* outcome of that one load, and a caller that comes when the data is
\* loaded is given a resolved promise.
C22_LoadRunsAtMostOnce ==
    /\ loadRuns <= 1
    /\ \A c \in DOMAIN callers :
         callers[c].pc # "idle" =>
            /\ callers[c].settled = loaderClient.loadingPromise
            /\ loadRuns = 1
            /\ loaderClient.isLoaded => callers[c].settled = "resolved"

\* Two callers suspended on the load at once and a third that has returned,
\* the data loaded by one run.
C22_Witness ==
    /\ loaderClient.isLoaded
    /\ loadRuns = 1
    /\ Cardinality({c \in DOMAIN callers : callers[c].pc = "awaiting"}) >= 2
    /\ \E c \in DOMAIN callers : callers[c].pc = "returned"

\* C29: once the load has failed, isLoaded is false and loadingPromise is the
\* rejected load; every call made since is given that rejection, also a call
\* made with the file in place, and _loadDataInternal has run just once.
C29_FailedLoadIsKept ==
    loaderClient.loadingPromise = "rejected" =>
        /\ ~loaderClient.isLoaded
        /\ loaderClient.zones = "empty"
        /\ loadRuns = 1
        /\ \A c \in DOMAIN callers :
             callers[c].pc # "idle" =>
                /\ callers[c].settled = "rejected"
                /\ callers[c].pc \in {"awaiting", "failed"}

\* A failed load, and two later calls of different methods made with the
\* file in place that failed all the same.
C29_Witness ==
    /\ loaderClient.loadingPromise = "rejected"
    /\ \E a, b \in DOMAIN callers :
         /\ callers[a].pc = "failed" /\ callers[a].fileSeen
         /\ callers[b].pc = "failed" /\ callers[b].fileSeen
         /\ callers[a].method = "getZoneCount"
         /\ callers[b].method = "findPlanningZone"
    /\ \E c \in DOMAIN callers : callers[c].pc = "failed" /\ ~callers[c].fileSeen

(***************************************************************************)
(* Claims about the route client                                           *)
(***************************************************************************)
\* C23: no two concurrent calls of the same signature both observe a cache
\* miss and both have their request out to the external service: neither
\* two routing GETs nor two token POSTs are out at once.
C23_NoTwoMissesInFlight ==
    /\ Cardinality({c \in DOMAIN routeCalls : routeCalls[c].pc = "routing"}) <= 1
    /\ Cardinality({c \in DOMAIN routeCalls : routeCalls[c].pc = "authenticating"}) <= 1

\* C24: a call that ends with the authentication error of a 401 has cleared
\* the cached token once, has asked for a new token, and has sent the
\* routing request a second time.
C24_OneReauthAndRetryOn401 ==
    \A c \in DOMAIN routeCalls :
        (routeCalls[c].pc = "failed" /\ routeCalls[c].error = "Authentication failed") =>
            /\ routeCalls[c].clears = 1
            /\ routeCalls[c].tokenPosts >= 1
            /\ routeCalls[c].routeGets = 2

(***************************************************************************)
(* Claims about the ad-hoc query tool                                      *)
(***************************************************************************)
\* The query as the claim reads it: the first word, white space aside, and
\* the words the text holds, letter case aside
BeginsWithSelectWord ==
    \E k \in DOMAIN sqlQuery :
        /\ sqlQuery[k].upper = "SELECT"
        /\ \A j \in 1..(k - 1) : sqlQuery[j].blank
HoldsForbiddenWord ==
    \E k \in DOMAIN sqlQuery :
        sqlQuery[k].upper \in {"DELETE", "PRAGMA", "CREATED_AT"}

\* C27: a query that does not begin with SELECT or that holds a forbidden
\* keyword gets an error result, and no call was made on the database for
\* the request: nothing was prepared or executed.
C27_RejectedBeforeAnyDatabaseCall ==
    (queryResult # "none" /\ (~BeginsWithSelectWord \/ HoldsForbiddenWord)) =>
        /\ queryResult = "error: Only SELECT queries are allowed"
        /\ dbCalls = <<>>

(***************************************************************************)
(* Claims about the school client                                          *)
(***************************************************************************)
\* The authenticate() requests in flight
AuthInFlight == {c \in DOMAIN authCallers : authCallers[c].pc = "authenticating"}

\* C28: at most one authenticate() request is in flight on the client at any
\* time, and isAuthenticating is true exactly while one is in flight.
C28_OneAuthenticationInFlight ==
    /\ Cardinality(AuthInFlight) <= 1
    /\ isAuthenticating <=> AuthInFlight # {}

(***************************************************************************)
(* Claims about the transaction filters of the radius search               *)
(***************************************************************************)
\* The transaction sub-filters a request makes active
ActiveSubFilters(o) ==
    {f \in {"minPrice", "maxPrice", "propertyTypes", "fromDate", "toDate",
            "minCompletionYear", "maxPropertyAge", "saleTypes"} :
        CASE f = "minPrice" -> o.minPrice # 0
          [] f = "maxPrice" -> o.maxPrice # 0
          [] f = "propertyTypes" -> o.propertyTypes.vals # {}
          [] f = "fromDate" -> o.fromDate.given
          [] f = "toDate" -> o.toDate.given
          [] f = "minCompletionYear" -> o.minCompletionYear # 0
          [] f = "maxPropertyAge" -> o.maxPropertyAge # 0
          [] f = "saleTypes" -> o.saleTypes.vals # {}}

\* Transaction t satisfies sub-filter f of the request (a date bound as the
\* filter compares dates; its calendar meaning is the subject of C20)
Satisfies(t, f, o) ==
    CASE f = "minPrice" -> t.price >= o.minPrice
      [] f = "maxPrice" -> t.price <= o.maxPrice
      [] f = "propertyTypes" -> t.property_type \in o.propertyTypes.vals
      [] f = "fromDate" -> DateLeq(o.fromDate, t.contract_date)
      [] f = "toDate" -> DateLeq(t.contract_date, o.toDate)
      [] f = "minCompletionYear" -> t.tenureYear >= o.minCompletionYear
      [] f = "maxPropertyAge" -> t.tenureYear >= AGE_BASE_YEAR - o.maxPropertyAge
      [] f = "saleTypes" -> t.type_of_sale \in o.saleTypes.vals

\* Some single transaction of p satisfies all active sub-filters together
JointlySatisfied(p, o) ==
    \E k \in DOMAIN p.txs :
        \A f \in ActiveSubFilters(o) : Satisfies(p.txs[k], f, o)

\* The properties that pass everything but the transaction filters
PassesOtherwise(p, center, o) ==
    /\ Dist2(p, center) <= o.maxDistanceMeters * o.maxDistanceMeters
    /\ o.marketSegments.vals # {} => p.market_segment \in o.marketSegments.vals
    /\ o.districts.vals # {} => p.district \in o.districts.vals

\* C26: with transaction filters active, a property is included exactly
\* when one single transaction of it satisfies all active sub-filters
\* together: every returned property has such a transaction, and (when the
\* limit cuts nothing off) every property with such a transaction that
\* passes the other filters is returned.  Transactions that satisfy the
\* sub-filters only separately do not include a property, and the other
\* transactions of an included property need not match.
C26_OneTransactionMeetsAllSubFilters ==
    (request.op = "near" /\ ActiveSubFilters(request.options) # {}) =>
        /\ \A id \in ResultIds(response) :
              JointlySatisfied(db[id], request.options)
        /\ ~response.truncated =>
              \A id \in DOMAIN db :
                  (/\ PassesOtherwise(db[id], request.center, request.options)
                   /\ JointlySatisfied(db[id], request.options))
                      => id \in ResultIds(response)

\* A search with a price bound and a property type that left out a property
\* within reach whose transactions meet the two separately, and returned
\* one with a transaction that meets both.
C26_Witness ==
    /\ request.op = "near"
    /\ {"minPrice", "propertyTypes"} \subseteq ActiveSubFilters(request.options)
    /\ ResultIds(response) # {}
    /\ ~response.truncated
    /\ \E id \in DOMAIN db \ ResultIds(response) :
         /\ PassesOtherwise(db[id], request.center, request.options)
         /\ ~JointlySatisfied(db[id], request.options)
         /\ \A f \in ActiveSubFilters(request.options) :
               \E k \in DOMAIN db[id].txs :
                   Satisfies(db[id].txs[k], f, request.options)

(***************************************************************************)
(* Claims about the order of the quarter buckets                           *)
(***************************************************************************)
\* The full year a label's two-digit suffix stands for
FullYearOfLabel(label) == fullYearOf(10 * label.suffix[1] + label.suffix[2])

\* Quarter a lies before quarter b in the calendar: full year major,
\* quarter minor
QuarterBefore(a, b) ==
    \/ FullYearOfLabel(a) < FullYearOfLabel(b)
    \/ FullYearOfLabel(a) = FullYearOfLabel(b) /\ a.quarter < b.quarter

\* C25: the quarter buckets of the price trend are in ascending
\* chronological order (full year major, quarter minor), and the recent
\* rental info is that of the chronologically most recent quarter among the
\* rentals read.
C25_BucketsInChronologicalOrder ==
    enriched.done =>
        /\ \A a, b \in DOMAIN enriched.pricePerSqfTrend :
              a < b => QuarterBefore(enriched.pricePerSqfTrend[a].quarter,
                                     enriched.pricePerSqfTrend[b].quarter)
        /\ enriched.recentRentalInfo.defined =>
              \A k \in DOMAIN enriched.recentRentals :
                  isValidRental(enriched.recentRentals[k]) =>
                      ~QuarterBefore(enriched.recentRentalInfo.quarter,
                                     leaseQuarter(enriched.recentRentals[k]))

(***************************************************************************)
(* Claims about the size of the price trend                                *)
(***************************************************************************)
\* The quarters of the transactions that count, among ts
QuartersOf(ts) ==
    {quarterLabel(ts[k]) : k \in {j \in DOMAIN ts : UnitPriceInRange(ts[j])}}

\* C30: the price trend is computed from at most 10 transactions, the first
\* 10 in descending MMYY string order of contract_date; it has one bucket
\* for each quarter of these (the window of 20 removes none), so at most 10
\* buckets, and the display never takes the yearly format of more than 12
\* buckets.
C30_TrendOfAtMostTenTransactions ==
    enriched.done =>
        LET recent == enriched.recentTransactions
            trend == enriched.pricePerSqfTrend
            read == {recent[j].id : j \in DOMAIN recent}
        IN /\ Len(recent) = Min(10, Len(history))
           /\ Cardinality(read) = Len(recent)
           /\ \A k \in 1..(Len(recent) - 1) :
                 ~StrLess(recent[k].contract_date, recent[k + 1].contract_date)
           /\ \A k \in DOMAIN recent :
                 /\ \E h \in DOMAIN history : history[h] = recent[k]
                 /\ \A h \in DOMAIN history :
                       history[h].id \notin read =>
                          ~StrLess(recent[k].contract_date, history[h].contract_date)
           /\ {trend[n].quarter : n \in DOMAIN trend} = QuartersOf(recent)
           /\ Len(trend) = Cardinality(QuartersOf(recent))
           /\ Len(trend) <= 10
           /\ trendFormat(trend) # "yearly"

\* A property with more than 10 sales, in more than 10 quarters, listed
\* newest first, whose trend has 10 buckets
C30_Witness ==
    /\ enriched.done
    /\ Len(history) > 10
    /\ Cardinality(QuartersOf(history)) > 10
    /\ StrLess(history[Len(history)].contract_date, history[1].contract_date)
    /\ Len(enriched.pricePerSqfTrend) = 10
    /\ trendFormat(enriched.pricePerSqfTrend) = "full"

=============================================================================
